---- MODULE Spec2Model ----
(***************************************************************************)
(* The fault-tolerant tile pipeline of variant f (Redis Streams):          *)
(* coordinator -> job stream -> workers -> result stream -> assembler.     *)
(* The store (streams, consumer groups, keys, sets), the disk and every    *)
(* process's position in its loop are the state; each action is one        *)
(* store call of a process together with the local code that follows it.  *)
(***************************************************************************)
EXTENDS Integers, Sequences, FiniteSets, TLC

VARIABLES
    jobs,        \* stream ftq:jobs: sequence of JobMessage, id = position
    jobLast,     \* group "workers": last-delivered id
    jobPEL,      \* group "workers": pending entries, id -> [owner, stale]
    results,     \* stream ftq:results: sequence of ResultMessage
    resLast,     \* group "assemblers": last-delivered id
    resPEL,      \* group "assemblers": pending entries, id -> [owner, stale]
    info,        \* key image:<id>:info -> ImageInfo, or NoInfo
    received,    \* key image:<id>:received -> set of TileIDs
    markers,     \* disk: tile_<id>.ok markers written by persistTile
    output,      \* disk: the file at OutputPath of each image, or NoFile
    coord,       \* coordinator: [pc, img, k]
    wk,          \* worker -> [pc, id, res]
    asmb,        \* assembler -> [pc, id, tile, assemblers]
    faults,      \* number of faults (crashes, store or disk errors) so far
    hist,        \* history: what the handlers did, for stating the claims
    call,        \* worker -> its ClaimStaleJobs call between XPENDING and XCLAIM
    pool,        \* variant g's WorkerPool: ctx, worker goroutines, retry monitor
    gasm,        \* variant g's assembler: [pc, id, tile, imageMap, crashes]
    eq,          \* variant e: the job and result lists, its workers and its assembler
    inproc,      \* the in-process variants a, b, c: channels and goroutines of one run
    grp,         \* streams with explicit consumer groups: creation, start position, deletion
    status,      \* key image:<id>:status -> "completed", or "none"
    px           \* one image at the level of pixels: split, blur, merge

vars == <<jobs, jobLast, jobPEL, results, resLast, resPEL, info, received,
          markers, output, coord, wk, asmb, faults, hist,
          call, pool, gasm, eq, inproc, grp, status, px>>

---------------------------------------------------------------------------
(* Bounds of the model *)

NumImages == 2
BatchSize == 1
MaxFaults == 1
MaxRestarts == 1
MaxRuns == 2

(* Program constants *)
TILE_SIZE == 256
ClaimCount == 50
KernelSize == 15

(* The input directory: the decoded sizes of the images, by ImageID. *)
InputImages ==
    <<[Width |-> 300, Height |-> 200],
      [Width |-> 200, Height |-> 100],
      [Width |-> 100, Height |-> 100]>>

Images == 0 .. (NumImages - 1)
Workers == {"worker-1", "worker-2"}
Assemblers == {"asm-1", "asm-2"}

NoInfo == [ID |-> -1, Width |-> 0, Height |-> 0, ExpectedTiles |-> 0]
NoTile == [ImageID |-> -1, TileID |-> -1, X |-> 0, Y |-> 0, Width |-> 0,
           Height |-> 0, Data |-> <<"none", 0, 0>>]

(* A nil *ImageTile. *)
NilTile == [ImageID |-> -1, TileID |-> -1, X |-> 0, Y |-> 0, Width |-> 0,
            Height |-> 0, Padding |-> 0, Data |-> <<"none", 0, 0>>]

(* The mark of a stream entry whose data is not the JSON of a message. *)
NotJson == "<not json>"

min(a, b) == IF a < b THEN a ELSE b
max(a, b) == IF a > b THEN a ELSE b

---------------------------------------------------------------------------
(* Coordinator: tiling of one image *)

Bounds(imageID) == InputImages[imageID + 1]

(* Mutant: the column count rounded down. *)
tilesX_Floor(imageID) == Bounds(imageID).Width \div TILE_SIZE

(* Mutant: the number of tiles rounded down. *)
tilesAlong_Floor(n, T) == n \div T

(* The number of tiles of edge T along a side of n pixels. *)
tilesAlong(n, T) == (n + T - 1) \div T

tilesX(imageID) == tilesAlong(Bounds(imageID).Width, TILE_SIZE)
tilesY(imageID) == tilesAlong(Bounds(imageID).Height, TILE_SIZE)
expected(imageID) == tilesX(imageID) * tilesY(imageID)

padding == KernelSize \div 2

(* The pixels of a tile are abstracted to the name of the region they were
   read from. *)
SourceData(imageID, tileID) == <<"src", imageID, tileID>>

(* The tile main cuts at (tileX, tileY). *)
extractTileWithPadding(imageID, tileID, tileX, tileY, tileW, tileH, pad) ==
    [ImageID |-> imageID, TileID |-> tileID, X |-> tileX, Y |-> tileY,
     Width |-> tileW, Height |-> tileH, Padding |-> pad,
     Data |-> SourceData(imageID, tileID)]

ImageInfoOf(imageID) ==
    [ID |-> imageID, Width |-> Bounds(imageID).Width,
     Height |-> Bounds(imageID).Height, ExpectedTiles |-> expected(imageID)]

---------------------------------------------------------------------------
(* The store: streams and consumer groups *)

(* XADD: the stream after the call; a failed call appends nothing. *)
XAdd(stream, msg, ok) == IF ok THEN Append(stream, msg) ELSE stream

(* Mutant: the read starts from the first entry instead of ">". *)
XReadGroupId_FromStart(stream, last) == IF Len(stream) > 0 THEN 1 ELSE 0

(* XREADGROUP ... ">" COUNT 1: the id delivered, 0 when nothing is new. *)
XReadGroupId(stream, last) == IF last < Len(stream) THEN last + 1 ELSE 0

(* The pending list after a delivery of id to consumer. *)
Deliver(pel, id, consumer) ==
    [m \in (DOMAIN pel) \cup {id} |->
        IF m = id THEN [owner |-> consumer, stale |-> FALSE] ELSE pel[m]]

(* XACK: the pending list without id; a failed call leaves it. *)
XAck(pel, id, ok) ==
    IF ok THEN [m \in (DOMAIN pel) \ {id} |-> pel[m]] ELSE pel

(* XPENDING ... IDLE minIdle - + count: the first count ids idle long enough. *)
XPendingExt(pel, count) ==
    LET idle == {m \in DOMAIN pel : pel[m].stale}
    IN  {m \in idle : Cardinality({n \in idle : n < m}) < count}

(* Mutant: XCLAIM without MINIDLE. *)
XClaim_NoMinIdle(pel, ids, consumer) ==
    [m \in DOMAIN pel |->
        IF m \in ids THEN [owner |-> consumer, stale |-> FALSE] ELSE pel[m]]

(* XCLAIM ... MINIDLE: the ids among `ids` still pending and idle move to
   consumer and their idle time restarts. *)
XClaim(pel, ids, consumer) ==
    [m \in DOMAIN pel |->
        IF m \in ids /\ pel[m].stale
        THEN [owner |-> consumer, stale |-> FALSE] ELSE pel[m]]

(* XCLAIM's reply: the entries it moved. *)
XClaimed(pel, ids) == {m \in ids : m \in DOMAIN pel /\ pel[m].stale}

ClaimStaleJobs(pel, consumer, count) ==
    XClaim(pel, XPendingExt(pel, count), consumer)

(* Mutant: every tile is reported new. *)
MarkTileReceived_AlwaysNew(set, tileID) ==
    [added |-> 1, set |-> set \cup {tileID}]

(* Mutant: a membership test that does not insert. *)
MarkTileReceived_TestOnly(set, tileID) ==
    [added |-> IF tileID \in set THEN 0 ELSE 1, set |-> set]

(* SADD, one atomic call: the member is in the set afterwards; the reply is
   1 when it was new, 0 when it was present. *)
MarkTileReceived(set, tileID) ==
    [added |-> IF tileID \in set THEN 0 ELSE 1, set |-> set \cup {tileID}]

(* SCARD *)
GetReceivedCount(set) == Cardinality(set)

Acked(last, pel, id) == id >= 1 /\ id <= last /\ id \notin DOMAIN pel

(* The outcomes a call that can fail may have: failure only while the
   fault budget lasts and only where the specification allows faults. *)
Outcomes(faulty) == IF faulty /\ faults < MaxFaults THEN {TRUE, FALSE} ELSE {TRUE}
Count(ok) == IF ok THEN faults ELSE faults + 1

---------------------------------------------------------------------------
(* Initial state: an empty store, an empty output directory, every process
   at the top of its loop. *)

(* The TileIDs the tiling loop gives an image: one per grid cell. *)
Starts(n) == {k * TILE_SIZE : k \in 0 .. ((n - 1) \div TILE_SIZE)}
GridCells(imageID) == Starts(Bounds(imageID).Width) \X Starts(Bounds(imageID).Height)
TileIds(imageID) == 0 .. (Cardinality(GridCells(imageID)) - 1)
Slots == UNION {{<<i, t>> : t \in TileIds(i)} : i \in Images}

(* image.NewRGBA: every tile region of the buffer is zero. *)
NewRGBA(imageID) == [t \in TileIds(imageID) |-> <<"zero", 0, 0>>]

NoFile == [exists |-> FALSE, img |-> <<>>]
NoAsm == [live |-> FALSE, info |-> NoInfo, img |-> <<>>]

(* The coordinator before the first file of the input directory; paths[k]
   tells whether file k decodes. *)
Start(paths) ==
    [pc |-> IF Len(paths) = 0 THEN "done" ELSE "store", img |-> 0, x |-> 0,
     y |-> 0, tileID |-> 0, runs |-> 1, paths |-> paths]
Idle == [pc |-> "read", id |-> 0, res |-> NoTile]
Waiting == [pc |-> "read", id |-> 0, tile |-> NoTile,
            assemblers |-> [i \in Images |-> NoAsm]]

NoPx == [pc |-> "off"]

(* NewWorkerPool: the context is not cancelled and no goroutine runs. *)
NewWorkerPool ==
    [cancelled |-> FALSE,
     worker |-> [w \in Workers |-> [pc |-> "new", id |-> 0, res |-> NoTile]],
     monitor |-> "new", returned |-> FALSE, published |-> {}, atStop |-> {},
     failed |-> {}]

(* An image without an entry in the imageMap, and NewAssembler: an empty
   imageMap. *)
NoAssembly ==
    [live |-> FALSE, info |-> NoInfo, img |-> <<>>, tilesReceived |-> 0,
     processedTiles |-> {}, completed |-> FALSE]
NewAssembler ==
    [pc |-> "read", id |-> 0, tile |-> NoTile, crashes |-> 0,
     imageMap |-> [i \in Images |-> NoAssembly]]

(* Variant e before its first job: empty lists, workers about to pop, an
   assembler with no image in its map. *)
NewRedisQueue ==
    [jobs |-> <<>>, results |-> <<>>,
     worker |-> [w \in Workers |-> [pc |-> "pop", job |-> NilTile]],
     assemblers |-> [i \in Images |->
                       [live |-> FALSE, img |-> <<>>, tilesReceived |-> 0]],
     progress |-> [i \in Images |-> 0],
     received |-> [i \in Images |-> 0],
     lost |-> {}]

(* No ClaimStaleJobs call is between its two store calls. *)
NoCall == [pc |-> "idle", count |-> 0, ids |-> {}, got |-> {}]

(* The history of a run that has just begun. *)
(* The two streams before any process has run: no stream key, no group,
   the Deployments of the worker and the assembler starting, no coordinator
   Job. *)
Streams == {"ftq:jobs", "ftq:results"}
NoGroup == [exists |-> FALSE, start |-> 0, last |-> 0]
NoGroups ==
    [stream |-> [s \in Streams |-> <<>>],
     group |-> [s \in Streams |-> NoGroup],
     proc |-> [p \in {"coordinator", "worker", "assembler"} |->
                 IF p = "coordinator" THEN "off" ELSE "ensure"],
     sent |-> 0, job |-> <<>>, run |-> 0]

(* A Go channel: make(chan T, cap), not closed. *)
NewChan(cap) == [buf |-> <<>>, cap |-> cap, closed |-> FALSE]

(* The in-process variants before a run is started: no channel is made and
   no goroutine runs. *)
NoRun ==
    [variant |-> "none", paths |-> <<>>,
     reader |-> [i \in Images |-> "off"],
     imageDataChannel |-> NewChan(0),
     imageDataList |-> <<>>,
     main |-> "idle",
     co |-> [pc |-> "off", k |-> 1, tileID |-> 0, dones |-> 0],
     tileQueue |-> NewChan(0), resultQueue |-> NewChan(0),
     worker |-> [w \in {} |-> 0],
     closer |-> "off",
     mgr |-> [pc |-> "off", tile |-> <<>>],
     asmChan |-> [i \in Images |-> NewChan(0)],
     asm |-> [i \in Images |-> [pc |-> "off", tilesReceived |-> 0, merged |-> {}]],
     saved |-> [i \in Images |-> [exists |-> FALSE, tiles |-> {}]],
     sent |-> <<>>,
     blurred |-> [s \in Slots |-> 0],
     panic |-> "none"]

NoHistory ==
    [added |-> [s \in Slots |-> 0],
     merged |-> [s \in Slots |-> 0],
     saves |-> [i \in Images |-> 0],
     acks |-> {},
     killed |-> FALSE,
     addErr |-> {},
     delivered |-> {},
     twice |-> {},
     jobAcks |-> {},
     run |-> 1]

InitWith(paths, p) ==
    /\ jobs = <<>> /\ jobLast = 0 /\ jobPEL = <<>>
    /\ results = <<>> /\ resLast = 0 /\ resPEL = <<>>
    /\ info = [i \in Images |-> NoInfo]
    /\ received = [i \in Images |-> {}]
    /\ markers = {}
    /\ output = [i \in Images |-> NoFile]
    /\ coord = Start(paths)
    /\ wk = [w \in Workers |-> Idle]
    /\ asmb = [a \in Assemblers |-> Waiting]
    /\ faults = 0
    /\ hist = NoHistory
    /\ call = [w \in Workers |-> NoCall]
    /\ pool = NewWorkerPool
    /\ gasm = NewAssembler
    /\ eq = NewRedisQueue
    /\ inproc = NoRun
    /\ grp = NoGroups
    /\ status = [i \in Images |-> "none"]
    /\ px = p

(* A directory of BatchSize files that decode. *)
Init == InitWith([k \in 1 .. BatchSize |-> TRUE], NoPx)

---------------------------------------------------------------------------
(* Coordinator (f/cmd/coordinator/main.go) *)

(* Mutant: a file that does not decode ends the batch. *)
NextImage_Abort(c) ==
    [c EXCEPT !.pc = "done", !.x = 0, !.y = 0, !.tileID = 0]

(* The range over paths: on to the next file, or out of the loop. *)
NextImage(c) ==
    IF c.img + 1 < Len(c.paths)
    THEN [c EXCEPT !.pc = "store", !.img = c.img + 1, !.x = 0, !.y = 0,
                   !.tileID = 0]
    ELSE [c EXCEPT !.pc = "done", !.x = 0, !.y = 0, !.tileID = 0]

(* loadImage of the current file: when it fails the file is skipped; else
   StoreImageInfo, whose failure is logged and the tiles are enqueued all
   the same. *)
C_StoreImageInfo(faulty) ==
    /\ coord.pc = "store"
    /\ IF ~coord.paths[coord.img + 1]
       THEN /\ coord' = NextImage(coord)
            /\ UNCHANGED <<info, faults>>
       ELSE /\ \E ok \in Outcomes(faulty) :
                 /\ info' = IF ok
                            THEN [info EXCEPT ![coord.img] = ImageInfoOf(coord.img)]
                            ELSE info
                 /\ faults' = Count(ok)
            /\ coord' = [coord EXCEPT !.pc = "add"]
    /\ UNCHANGED <<call, pool, gasm, eq, inproc, grp, status, px, jobs, jobLast, jobPEL,
                   results, resLast, resPEL, received, markers, output, wk,
                   asmb, hist>>

(* The loops over y and x: the position after the tile at (x, y). *)
NextTile(c) ==
    LET b == Bounds(c.img)
        x2 == c.x + TILE_SIZE
        y2 == c.y + TILE_SIZE
    IN  IF x2 < b.Width THEN [c EXCEPT !.x = x2, !.tileID = c.tileID + 1]
        ELSE IF y2 < b.Height
        THEN [c EXCEPT !.x = 0, !.y = y2, !.tileID = c.tileID + 1]
        ELSE NextImage(c)

(* What main sees of AddJob: its error is only json.Marshal's, never
   XADD's, so the call reports success whether or not it appended. *)
AddJobReports(ok) == TRUE

(* AddJob of the tile at (x, y); main logs the error AddJob reports. *)
C_AddJob(faulty) ==
    /\ coord.pc = "add"
    /\ LET b == Bounds(coord.img)
           tw == min(TILE_SIZE, b.Width - coord.x)
           th == min(TILE_SIZE, b.Height - coord.y)
           tile == extractTileWithPadding(coord.img, coord.tileID, coord.x,
                                          coord.y, tw, th, padding)
           job == [Type |-> "tile", ImageTile |-> tile]
       IN  \E ok \in Outcomes(faulty) :
                /\ jobs' = XAdd(jobs, job, ok)
                /\ faults' = Count(ok)
                /\ hist' = IF AddJobReports(ok) THEN hist
                           ELSE [hist EXCEPT !.addErr =
                                    @ \cup {<<coord.img, coord.tileID>>}]
    /\ coord' = NextTile(coord)
    /\ UNCHANGED <<call, pool, gasm, eq, inproc, grp, status, px, jobLast, jobPEL, results,
                   resLast, resPEL, info, received, markers, output, wk, asmb>>

(* The coordinator Job is killed before it finished and run again. *)
C_Restart ==
    /\ coord.pc # "done"
    /\ Len(jobs) > 0
    /\ coord.runs <= MaxRestarts
    /\ coord' = [Start(coord.paths) EXCEPT !.runs = coord.runs + 1]
    /\ UNCHANGED <<call, pool, gasm, eq, inproc, grp, status, px, jobs, jobLast, jobPEL,
                   results, resLast, resPEL, info, received, markers, output,
                   wk, asmb, faults, hist>>

---------------------------------------------------------------------------
(* Worker (f/cmd/worker/main.go) *)

(* What the worker computes from a tile: the blurred centre, with the
   tile's identity and place. *)
Processed(tile) ==
    [ImageID |-> tile.ImageID, TileID |-> tile.TileID, X |-> tile.X,
     Y |-> tile.Y, Width |-> tile.Width, Height |-> tile.Height,
     Data |-> <<"blur", tile.Data[2], tile.Data[3]>>]

(* json.Unmarshal of a job entry's data succeeds. *)
JobDecodes(raw) == raw.Type # NotJson

(* The test of main for a job it can work on. *)
ValidJob(job) == job.Type = "tile" /\ job.ImageTile # NilTile

(* The history with XREADGROUP's delivery of entry id of a stream; an
   entry that a read had delivered before is noted as delivered twice. *)
Delivered(h, stream, id) ==
    [h EXCEPT !.delivered = @ \cup {<<stream, id>>},
              !.twice = IF <<stream, id>> \in h.delivered
                        THEN @ \cup {<<stream, id>>} ELSE @]

(* The history with a successful XACK of job id. *)
JobAcked(h, id) == [h EXCEPT !.jobAcks = @ \cup {id}]

(* Top of the loop: ClaimStaleJobs, whose result is dropped, then ReadJob:
   nothing new: around again; data that does not decode: ReadJob's error
   is logged, around again; an invalid job: ack and around again; a job:
   blur it. *)
W_Read(w) ==
    /\ wk[w].pc = "read"
    /\ LET claimed == ClaimStaleJobs(jobPEL, w, ClaimCount)
           id == XReadGroupId(jobs, jobLast)
       IN  IF id = 0
           THEN /\ jobPEL' = claimed
                /\ UNCHANGED <<jobLast, wk, hist>>
           ELSE IF ~JobDecodes(jobs[id])
           THEN /\ jobLast' = id
                /\ jobPEL' = Deliver(claimed, id, w)
                /\ hist' = Delivered(hist, "jobs", id)
                /\ UNCHANGED wk
           ELSE IF ~ValidJob(jobs[id])
           THEN /\ jobLast' = id
                /\ jobPEL' = XAck(Deliver(claimed, id, w), id, TRUE)
                /\ hist' = JobAcked(Delivered(hist, "jobs", id), id)
                /\ UNCHANGED wk
           ELSE /\ jobLast' = id
                /\ jobPEL' = Deliver(claimed, id, w)
                /\ hist' = Delivered(hist, "jobs", id)
                /\ wk' = [wk EXCEPT ![w] =
                            [pc |-> "publish", id |-> id,
                             res |-> Processed(jobs[id].ImageTile)]]
    /\ UNCHANGED <<call, pool, gasm, eq, inproc, grp, status, px, jobs, results, resLast,
                   resPEL, info, received, markers, output, coord, asmb,
                   faults>>

(* What main sees of AddResult: its error is only json.Marshal's, never
   XADD's, so the call reports success whether or not it appended. *)
AddResultReports(ok) == TRUE

(* AddResult, then on reported success on to AckJob. *)
W_Publish(w, faulty) ==
    /\ wk[w].pc = "publish"
    /\ \E ok \in Outcomes(faulty) :
         /\ results' = XAdd(results, [ProcessedTile |-> wk[w].res, WorkerID |-> w], ok)
         /\ faults' = Count(ok)
         /\ wk' = IF AddResultReports(ok) THEN [wk EXCEPT ![w].pc = "ack"]
                  ELSE [wk EXCEPT ![w] = Idle]
    /\ UNCHANGED <<call, pool, gasm, eq, inproc, grp, status, px, jobs, jobLast, jobPEL,
                   resLast, resPEL, info, received, markers, output, coord,
                   asmb, hist>>

(* AckJob; a failure is logged. *)
W_Ack(w, faulty) ==
    /\ wk[w].pc = "ack"
    /\ \E ok \in Outcomes(faulty) :
         /\ jobPEL' = XAck(jobPEL, wk[w].id, ok)
         /\ faults' = Count(ok)
         /\ hist' = IF ok THEN JobAcked(hist, wk[w].id) ELSE hist
    /\ wk' = [wk EXCEPT ![w] = Idle]
    /\ UNCHANGED <<call, pool, gasm, eq, inproc, grp, status, px, jobs, jobLast, results,
                   resLast, resPEL, info, received, markers, output, coord,
                   asmb>>

(* The worker is killed while it holds a job, and its replacement starts. *)
W_Crash(w) ==
    /\ wk[w].pc \in {"publish", "ack"}
    /\ faults < MaxFaults
    /\ faults' = faults + 1
    /\ wk' = [wk EXCEPT ![w] = Idle]
    /\ UNCHANGED <<call, pool, gasm, eq, inproc, grp, status, px, jobs, jobLast, jobPEL,
                   results, resLast, resPEL, info, received, markers, output,
                   coord, asmb, hist>>

(* kubectl delete pods -l app=ftq-worker while a job is in flight: every
   worker is killed, and the Deployment starts replacements. *)
W_KillAll ==
    /\ \E w \in Workers : wk[w].pc = "publish"
    /\ faults < MaxFaults
    /\ faults' = faults + 1
    /\ wk' = [w \in Workers |-> Idle]
    /\ hist' = [hist EXCEPT !.killed = TRUE]
    /\ UNCHANGED <<call, pool, gasm, eq, inproc, grp, status, px, jobs, jobLast, jobPEL,
                   results, resLast, resPEL, info, received, markers, output,
                   coord, asmb>>

(* Time passes: a pending job has been idle for the visibility timeout. *)
Tick ==
    /\ \E id \in DOMAIN jobPEL :
         /\ ~jobPEL[id].stale
         /\ jobPEL' = [jobPEL EXCEPT ![id].stale = TRUE]
    /\ UNCHANGED <<call, pool, gasm, eq, inproc, grp, status, px, jobs, jobLast, results,
                   resLast, resPEL, info, received, markers, output, coord, wk,
                   asmb, faults, hist>>

---------------------------------------------------------------------------
(* Entries of the streams that are no well-formed message *)

MaxBad == 1

(* A job of another type, a job without a tile, data that is no JSON. *)
BadJobs ==
    {[Type |-> "other",
      ImageTile |-> extractTileWithPadding(0, 0, 0, 0, 1, 1, padding)],
     [Type |-> "tile", ImageTile |-> NilTile],
     [Type |-> NotJson, ImageTile |-> NilTile]}

(* A result without a ProcessedTile, data that is no JSON. *)
BadResults ==
    {[ProcessedTile |-> NoTile, WorkerID |-> "other"],
     [ProcessedTile |-> NoTile, WorkerID |-> NotJson]}

BadIn(stream, bad) == {k \in 1 .. Len(stream) : stream[k] \in bad}

(* Some producer appends a malformed entry to the job stream. *)
X_BadJob ==
    /\ Cardinality(BadIn(jobs, BadJobs)) < MaxBad
    /\ \E m \in BadJobs : jobs' = Append(jobs, m)
    /\ UNCHANGED <<call, pool, gasm, eq, inproc, grp, status, px, jobLast, jobPEL, results,
                   resLast, resPEL, info, received, markers, output, coord, wk,
                   asmb, faults, hist>>

(* Some producer appends a malformed entry to the result stream. *)
X_BadResult ==
    /\ Cardinality(BadIn(results, BadResults)) < MaxBad
    /\ \E m \in BadResults : results' = Append(results, m)
    /\ UNCHANGED <<call, pool, gasm, eq, inproc, grp, status, px, jobs, jobLast, jobPEL,
                   resLast, resPEL, info, received, markers, output, coord, wk,
                   asmb, faults, hist>>

---------------------------------------------------------------------------
(* Assembler (f/cmd/assembler/main.go) *)

(* Mutant: the completion check one tile early. *)
Complete_OffByOne(count, expectedTiles) == count >= expectedTiles - 1

(* The completion check of main. *)
Complete(count, expectedTiles) == count >= expectedTiles

(* The loop that applies a tile to the image buffer. *)
Apply(img, tile) == [img EXCEPT ![tile.TileID] = tile.Data]

(* The image of result id has its output file. *)
SavedAlready(id) ==
    LET i == results[id].ProcessedTile.ImageID
    IN  i \in Images /\ output[i].exists

(* The history with an AckResult of result id: how the assembler came to
   it, and whether the image was saved by then. *)
LoggedIn(h, id, kind, a) ==
    [h EXCEPT !.acks = @ \cup {[id |-> id, kind |-> kind, by |-> a,
                                late |-> SavedAlready(id)]}]

(* The same, on the history as it stands. *)
Logged(id, kind, a) == LoggedIn(hist, id, kind, a)

(* Every assembler process reads as the same consumer of the group. *)
consumer == "assembler"

(* json.Unmarshal of a result entry's data succeeds. *)
ResultDecodes(raw) == raw.WorkerID # NotJson

(* ReadResult: data that does not decode: the error is logged, next
   message; a nil ProcessedTile: ack and skip; then the lookup of the
   image's assembly; for an image not yet in the map GetImageInfo, and on
   its failure ack and skip. *)
A_Read(a, faulty) ==
    /\ asmb[a].pc = "read"
    /\ LET id == XReadGroupId(results, resLast)
           tile == results[id].ProcessedTile
           asm == asmb[a].assemblers[tile.ImageID]
       IN  /\ id # 0
           /\ resLast' = id
           /\ IF ~ResultDecodes(results[id])
              THEN /\ resPEL' = Deliver(resPEL, id, consumer)
                   /\ hist' = Delivered(hist, "results", id)
                   /\ UNCHANGED <<asmb, faults>>
              ELSE IF tile = NoTile
              THEN /\ resPEL' = XAck(Deliver(resPEL, id, consumer), id, TRUE)
                   /\ hist' = LoggedIn(Delivered(hist, "results", id), id, "invalid", a)
                   /\ UNCHANGED <<asmb, faults>>
              ELSE IF asm.live
              THEN /\ resPEL' = Deliver(resPEL, id, consumer)
                   /\ asmb' = [asmb EXCEPT ![a].pc = "mark", ![a].id = id,
                                           ![a].tile = tile]
                   /\ hist' = Delivered(hist, "results", id)
                   /\ UNCHANGED faults
              ELSE \E ok \in Outcomes(faulty) :
                   /\ faults' = Count(ok)
                   /\ IF ok /\ info[tile.ImageID] # NoInfo
                      THEN /\ resPEL' = Deliver(resPEL, id, consumer)
                           /\ asmb' = [asmb EXCEPT
                                ![a].pc = "mark", ![a].id = id, ![a].tile = tile,
                                ![a].assemblers[tile.ImageID] =
                                    [live |-> TRUE, info |-> info[tile.ImageID],
                                     img |-> NewRGBA(tile.ImageID)]]
                           /\ hist' = Delivered(hist, "results", id)
                      ELSE /\ resPEL' = XAck(Deliver(resPEL, id, consumer), id, TRUE)
                           /\ hist' = LoggedIn(Delivered(hist, "results", id), id,
                                                "noinfo", a)
                           /\ UNCHANGED asmb
    /\ UNCHANGED <<call, pool, gasm, eq, inproc, grp, status, px, jobs, jobLast, jobPEL,
                   results, info, received, markers, output, coord, wk>>

(* MarkTileReceived: an error: next message, no ack; a duplicate: ack and
   next message; new: on to persistTile. *)
A_Mark(a, faulty) ==
    /\ asmb[a].pc = "mark"
    /\ LET tile == asmb[a].tile
           set == received[tile.ImageID]
           sadd == MarkTileReceived(set, tile.TileID)
       IN  \E ok \in Outcomes(faulty) :
           /\ faults' = Count(ok)
           /\ IF ~ok
              THEN /\ asmb' = [asmb EXCEPT ![a].pc = "read", ![a].id = 0,
                                           ![a].tile = NoTile]
                   /\ UNCHANGED <<received, resPEL, hist>>
              ELSE IF sadd.added = 0
              THEN /\ resPEL' = XAck(resPEL, asmb[a].id, TRUE)
                   /\ hist' = Logged(asmb[a].id, "duplicate", a)
                   /\ asmb' = [asmb EXCEPT ![a].pc = "read", ![a].id = 0,
                                           ![a].tile = NoTile]
                   /\ received' = [received EXCEPT ![tile.ImageID] = sadd.set]
              ELSE /\ received' = [received EXCEPT ![tile.ImageID] = sadd.set]
                   /\ hist' = [hist EXCEPT
                                 !.added[<<tile.ImageID, tile.TileID>>] = @ + 1]
                   /\ asmb' = [asmb EXCEPT ![a].pc = "persist"]
                   /\ UNCHANGED resPEL
    /\ UNCHANGED <<call, pool, gasm, eq, inproc, grp, status, px, jobs, jobLast, jobPEL,
                   results, resLast, info, markers, output, coord, wk>>

(* persistTile: an error: next message, no ack; written: apply the tile to
   the buffer. *)
A_Persist(a, faulty) ==
    /\ asmb[a].pc = "persist"
    /\ LET tile == asmb[a].tile
           slot == <<tile.ImageID, tile.TileID>>
       IN  \E ok \in Outcomes(faulty) :
           /\ faults' = Count(ok)
           /\ IF ~ok
              THEN /\ asmb' = [asmb EXCEPT ![a].pc = "read", ![a].id = 0,
                                           ![a].tile = NoTile]
                   /\ UNCHANGED <<markers, hist>>
              ELSE /\ markers' = markers \cup {slot}
                   /\ asmb' = [asmb EXCEPT ![a].pc = "ack",
                                ![a].assemblers[tile.ImageID].img = Apply(@, tile)]
                   /\ hist' = [hist EXCEPT !.merged[slot] = @ + 1]
    /\ UNCHANGED <<call, pool, gasm, eq, inproc, grp, status, px, jobs, jobLast, jobPEL,
                   results, resLast, resPEL, info, received, output, coord,
                   wk>>

(* AckResult after the write and the apply; a failure is logged. *)
A_Ack(a, faulty) ==
    /\ asmb[a].pc = "ack"
    /\ \E ok \in Outcomes(faulty) :
         /\ faults' = Count(ok)
         /\ resPEL' = XAck(resPEL, asmb[a].id, ok)
         /\ hist' = IF ok THEN Logged(asmb[a].id, "applied", a) ELSE hist
    /\ asmb' = [asmb EXCEPT ![a].pc = "check"]
    /\ UNCHANGED <<call, pool, gasm, eq, inproc, grp, status, px, jobs, jobLast, jobPEL,
                   results, resLast, info, received, markers, output, coord,
                   wk>>

(* GetReceivedCount and the completion check: saveImage (a failure is
   logged) and the assembly leaves the map. *)
A_Check(a, faulty) ==
    /\ asmb[a].pc = "check"
    /\ LET tile == asmb[a].tile
           asm == asmb[a].assemblers[tile.ImageID]
           count == GetReceivedCount(received[tile.ImageID])
       IN  IF Complete(count, asm.info.ExpectedTiles)
           THEN \E ok \in Outcomes(faulty) :
                /\ faults' = Count(ok)
                /\ output' = IF ok THEN [output EXCEPT ![tile.ImageID] =
                                          [exists |-> TRUE, img |-> asm.img]]
                             ELSE output
                /\ hist' = IF ok THEN [hist EXCEPT !.saves[tile.ImageID] = @ + 1]
                           ELSE hist
                /\ asmb' = [asmb EXCEPT ![a].pc = "read", ![a].id = 0,
                                        ![a].tile = NoTile,
                                        ![a].assemblers[tile.ImageID] = NoAsm]
           ELSE /\ asmb' = [asmb EXCEPT ![a].pc = "read", ![a].id = 0,
                                        ![a].tile = NoTile]
                /\ UNCHANGED <<faults, output, hist>>
    /\ UNCHANGED <<call, pool, gasm, eq, inproc, grp, status, px, jobs, jobLast, jobPEL,
                   results, resLast, resPEL, info, received, markers, coord,
                   wk>>

(* The assembler is killed in the middle of a message, and its replacement
   starts with an empty map. *)
A_Crash(a) ==
    /\ asmb[a].pc # "read"
    /\ faults < MaxFaults
    /\ faults' = faults + 1
    /\ asmb' = [asmb EXCEPT ![a] = Waiting]
    /\ UNCHANGED <<call, pool, gasm, eq, inproc, grp, status, px, jobs, jobLast, jobPEL,
                   results, resLast, resPEL, info, received, markers, output,
                   coord, wk, hist>>

---------------------------------------------------------------------------
(* One image at the level of pixels: the coordinator's split, the worker's
   blur and strip, the assembler's merge, for an image of W x H pixels, a
   tile edge T and a kernel size.  A pixel is one channel value. *)

MaxW == 4
MaxH == 3
MaxT == 3
MaxTiles == 6
KernelSizes == {1, 3}

PxInputs ==
    {in \in [W : 1 .. MaxW, H : 1 .. MaxH, T : 1 .. MaxT, kernelSize : KernelSizes] :
        tilesAlong(in.W, in.T) * tilesAlong(in.H, in.T) <= MaxTiles}

(* The decoded image: every pixel has its own value, none the zero of a
   fresh buffer. *)
Image(W, H) == [p \in (0 .. W - 1) \X (0 .. H - 1) |-> p[2] * W + p[1] + 1]

(* Mutant: the tile edge, not clipped at the image bound. *)
tileDim_Full(T, limit, start) == T

(* tw, th: the tile edge, clipped at the image bound. *)
tileDim(T, limit, start) == min(T, limit - start)

(* pdata of extractTileWithPadding: the rows of the source between the
   padded bounds of the tile, the bounds cut at the image's. *)
PaddedData(img, W, H, tileX, tileY, tileW, tileH, pad) ==
    LET sx == max(tileX - pad, 0)
        sy == max(tileY - pad, 0)
        ex == min(tileX + tileW + pad, W)
        ey == min(tileY + tileH + pad, H)
        pw == ex - sx
        ph == ey - sy
    IN  [y \in 1 .. ph |-> [x \in 1 .. pw |-> img[<<sx + x - 1, sy + y - 1>>]]]

(* The kernel: the Gaussian weights of GenerateGaussianKernel in eighths of
   the centre weight, rounded; normalising divides by their sum. *)
GenerateGaussianKernel(size) ==
    IF size = 1 THEN <<<<1>>>>
    ELSE <<<<3, 5, 3>>, <<5, 8, 5>>, <<3, 5, 3>>>>

RECURSIVE SumSeq(_)
SumSeq(q) == IF q = <<>> THEN 0 ELSE Head(q) + SumSeq(Tail(q))

KernelSum(kernel) == SumSeq([k \in 1 .. Len(kernel) |-> SumSeq(kernel[k])])

clamp(v, n) == IF v < 0 THEN 0 ELSE IF v >= n THEN n - 1 ELSE v

(* ApplyBlurToTile: the weighted sum over the kernel window, reads outside
   the tile data clamped to its edge, the sum cut to an integer. *)
ApplyBlurToTile(data, kernel) ==
    LET height == Len(data)
        width == Len(data[1])
        kernelSize == Len(kernel)
        offset == kernelSize \div 2
        at(x, y, kx, ky) ==
            data[clamp(y + ky - offset, height) + 1][clamp(x + kx - offset, width) + 1]
        row(x, y, ky) ==
            SumSeq([k \in 1 .. kernelSize |-> at(x, y, k - 1, ky) * kernel[ky + 1][k]])
        sum(x, y) == SumSeq([k \in 1 .. kernelSize |-> row(x, y, k - 1)])
    IN  [y \in 1 .. height |->
            [x \in 1 .. width |-> sum(x - 1, y - 1) \div KernelSum(kernel)]]

(* Mutant: the blurred data returned with its padding. *)
ExtractCenter_Keep(data, pad, width, height) == data

(* ExtractCenter: height rows of width pixels read at an offset of padding,
   the index clamped to the last row and column of the data. *)
ExtractCenter(data, pad, width, height) ==
    [y \in 1 .. height |->
        [x \in 1 .. width |->
            data[min(y - 1 + pad, Len(data) - 1) + 1]
                [min(x - 1 + pad, Len(data[1]) - 1) + 1]]]

(* The worker's processed tile. *)
processed(tile, kernel) ==
    [ImageID |-> tile.ImageID, TileID |-> tile.TileID, X |-> tile.X,
     Y |-> tile.Y, Width |-> tile.Width, Height |-> tile.Height,
     Data |-> ExtractCenter(ApplyBlurToTile(tile.Data, kernel), tile.Padding,
                            tile.Width, tile.Height)]

(* Mutant: the tile written at the origin of the buffer. *)
SetTile_AtOrigin(img, tile) ==
    [p \in DOMAIN img |->
        IF /\ p[2] < tile.Height /\ p[2] < Len(tile.Data)
           /\ p[1] < tile.Width /\ p[1] < Len(tile.Data[p[2] + 1])
        THEN tile.Data[p[2] + 1][p[1] + 1]
        ELSE img[p]]

(* The assembler's loop over the tile: SetRGBA(tile.X+x, tile.Y+y, ...) for
   y below Height and the rows of Data, x below Width and the row's
   length; a point outside the buffer is left out by SetRGBA. *)
SetTile(img, tile) ==
    [p \in DOMAIN img |->
        LET x == p[1] - tile.X
            y == p[2] - tile.Y
        IN  IF /\ y >= 0 /\ y < tile.Height /\ y < Len(tile.Data)
               /\ x >= 0 /\ x < tile.Width /\ x < Len(tile.Data[y + 1])
            THEN tile.Data[y + 1][x + 1]
            ELSE img[p]]

(* image.NewRGBA for W x H pixels. *)
ZeroImage(W, H) == [p \in (0 .. W - 1) \X (0 .. H - 1) |-> 0]

PxStart(in) ==
    [pc |-> "split", W |-> in.W, H |-> in.H, T |-> in.T,
     kernelSize |-> in.kernelSize, padding |-> in.kernelSize \div 2,
     expected |-> tilesAlong(in.W, in.T) * tilesAlong(in.H, in.T),
     x |-> 0, y |-> 0, tileID |-> 0,
     tiles |-> <<>>, next |-> 1, results |-> <<>>, merged |-> {}, first |-> 0,
     out |-> ZeroImage(in.W, in.H),
     file |-> [exists |-> FALSE, img |-> ZeroImage(in.W, in.H)]]

pipelineButCall == <<jobs, jobLast, jobPEL, results, resLast, resPEL, info,
                     received, markers, output, coord, wk, asmb, faults, hist,
                     pool, gasm, eq, inproc, grp, status>>

pipeline == <<jobs, jobLast, jobPEL, results, resLast, resPEL, info, received,
              markers, output, coord, wk, asmb, faults, hist,
              call, pool, gasm, eq, inproc, grp, status>>

(* The coordinator cuts the tile at (x, y) and enqueues it. *)
P_Split ==
    /\ px.pc = "split"
    /\ LET tw == tileDim(px.T, px.W, px.x)
           th == tileDim(px.T, px.H, px.y)
           tile == [ImageID |-> 0, TileID |-> px.tileID, X |-> px.x, Y |-> px.y,
                    Width |-> tw, Height |-> th, Padding |-> px.padding,
                    Data |-> PaddedData(Image(px.W, px.H), px.W, px.H, px.x,
                                        px.y, tw, th, px.padding)]
           x2 == px.x + px.T
           y2 == px.y + px.T
       IN  px' = IF x2 < px.W
                 THEN [px EXCEPT !.tiles = Append(@, tile), !.x = x2,
                                 !.tileID = @ + 1]
                 ELSE IF y2 < px.H
                 THEN [px EXCEPT !.tiles = Append(@, tile), !.x = 0, !.y = y2,
                                 !.tileID = @ + 1]
                 ELSE [px EXCEPT !.tiles = Append(@, tile), !.pc = "run",
                                 !.tileID = @ + 1]
    /\ UNCHANGED pipeline

(* The worker blurs the next tile of the queue, strips the padding and
   publishes the result. *)
P_Work ==
    /\ px.pc \in {"split", "run"}
    /\ px.next <= Len(px.tiles)
    /\ px' = [px EXCEPT
                !.results = Append(@, processed(px.tiles[px.next],
                                     GenerateGaussianKernel(px.kernelSize))),
                !.next = @ + 1]
    /\ UNCHANGED pipeline

(* The assembler applies a result it has not applied, and saves the image
   when that was the last one. *)
P_Merge(r) ==
    /\ px.pc \in {"split", "run"}
    /\ r \in (1 .. Len(px.results)) \ px.merged
    /\ LET img == SetTile(px.out, px.results[r])
           set == px.merged \cup {r}
           first == IF px.first = 0 THEN r ELSE px.first
       IN  px' = IF Complete(Cardinality(set), px.expected)
                 THEN [px EXCEPT !.out = img, !.merged = set, !.first = first,
                                 !.pc = "saved",
                                 !.file = [exists |-> TRUE, img |-> img]]
                 ELSE [px EXCEPT !.out = img, !.merged = set, !.first = first]
    /\ UNCHANGED pipeline

---------------------------------------------------------------------------
(* Specifications *)

(* The pipeline with one assembler, and process kills and store and disk
   errors within the fault budget. *)
Next ==
    \/ C_StoreImageInfo(TRUE)
    \/ C_AddJob(TRUE)
    \/ \E w \in Workers : W_Read(w)
    \/ \E w \in Workers : W_Publish(w, TRUE)
    \/ \E w \in Workers : W_Ack(w, TRUE)
    \/ \E w \in Workers : W_Crash(w)
    \/ Tick
    \/ A_Read("asm-1", TRUE)
    \/ A_Mark("asm-1", TRUE)
    \/ A_Persist("asm-1", TRUE)
    \/ A_Ack("asm-1", TRUE)
    \/ A_Check("asm-1", TRUE)
    \/ A_Crash("asm-1")

Spec == Init /\ [][Next]_vars

(* No process kill and no error, and no job pending as long as the
   visibility timeout; but the coordinator Job may be run again: the job
   stream, and so the result stream, then carries tiles twice. *)
NextRerun ==
    \/ C_StoreImageInfo(FALSE)
    \/ C_AddJob(FALSE)
    \/ C_Restart
    \/ \E w \in Workers : W_Read(w)
    \/ \E w \in Workers : W_Publish(w, FALSE)
    \/ \E w \in Workers : W_Ack(w, FALSE)
    \/ A_Read("asm-1", FALSE)
    \/ A_Mark("asm-1", FALSE)
    \/ A_Persist("asm-1", FALSE)
    \/ A_Ack("asm-1", FALSE)
    \/ A_Check("asm-1", FALSE)

SpecRerun == Init /\ [][NextRerun]_vars

(* The same with one worker and two assembler processes on the result
   stream. *)
NextTwoAsm ==
    \/ C_StoreImageInfo(FALSE)
    \/ C_AddJob(FALSE)
    \/ C_Restart
    \/ W_Read("worker-1")
    \/ W_Publish("worker-1", FALSE)
    \/ W_Ack("worker-1", FALSE)
    \/ \E a \in Assemblers : A_Read(a, FALSE)
    \/ \E a \in Assemblers : A_Mark(a, FALSE)
    \/ \E a \in Assemblers : A_Persist(a, FALSE)
    \/ \E a \in Assemblers : A_Ack(a, FALSE)
    \/ \E a \in Assemblers : A_Check(a, FALSE)

SpecTwoAsm == Init /\ [][NextTwoAsm]_vars

(* Workers may be killed, nothing else goes wrong, and every process that
   is running keeps taking its steps; time keeps passing. *)
NextWorkerCrash ==
    \/ C_StoreImageInfo(FALSE)
    \/ C_AddJob(FALSE)
    \/ \E w \in Workers : W_Read(w)
    \/ \E w \in Workers : W_Publish(w, FALSE)
    \/ \E w \in Workers : W_Ack(w, FALSE)
    \/ \E w \in Workers : W_Crash(w)
    \/ W_KillAll
    \/ Tick
    \/ A_Read("asm-1", FALSE)
    \/ A_Mark("asm-1", FALSE)
    \/ A_Persist("asm-1", FALSE)
    \/ A_Ack("asm-1", FALSE)
    \/ A_Check("asm-1", FALSE)

Fair(assemblerFaulty) ==
    /\ WF_vars(C_StoreImageInfo(FALSE))
    /\ WF_vars(C_AddJob(FALSE))
    /\ \A w \in Workers :
         /\ WF_vars(W_Read(w))
         /\ WF_vars(W_Publish(w, FALSE))
         /\ WF_vars(W_Ack(w, FALSE))
    /\ WF_vars(Tick)
    /\ WF_vars(A_Read("asm-1", FALSE))
    /\ WF_vars(A_Mark("asm-1", FALSE))
    /\ WF_vars(A_Persist("asm-1", FALSE))
    /\ WF_vars(A_Ack("asm-1", FALSE))
    /\ WF_vars(A_Check("asm-1", assemblerFaulty))

SpecWorkerCrash == Init /\ [][NextWorkerCrash]_vars /\ Fair(FALSE)

(* The assembler may be killed and saveImage may fail, nothing else goes
   wrong, and every process that is running keeps taking its steps. *)
NextAsmCrash ==
    \/ C_StoreImageInfo(FALSE)
    \/ C_AddJob(FALSE)
    \/ \E w \in Workers : W_Read(w)
    \/ \E w \in Workers : W_Publish(w, FALSE)
    \/ \E w \in Workers : W_Ack(w, FALSE)
    \/ Tick
    \/ A_Read("asm-1", FALSE)
    \/ A_Mark("asm-1", FALSE)
    \/ A_Persist("asm-1", FALSE)
    \/ A_Ack("asm-1", FALSE)
    \/ A_Check("asm-1", TRUE)
    \/ A_Crash("asm-1")

SpecAsmCrash == Init /\ [][NextAsmCrash]_vars /\ Fair(TRUE)

(* Nothing goes wrong, and every process keeps taking its steps. *)
NextClean ==
    \/ C_StoreImageInfo(FALSE)
    \/ C_AddJob(FALSE)
    \/ \E w \in Workers : W_Read(w)
    \/ \E w \in Workers : W_Publish(w, FALSE)
    \/ \E w \in Workers : W_Ack(w, FALSE)
    \/ Tick
    \/ A_Read("asm-1", FALSE)
    \/ A_Mark("asm-1", FALSE)
    \/ A_Persist("asm-1", FALSE)
    \/ A_Ack("asm-1", FALSE)
    \/ A_Check("asm-1", FALSE)

SpecClean == Init /\ [][NextClean]_vars /\ Fair(FALSE)

(* Any of the files of the input directory may fail to decode; nothing else
   goes wrong. *)
InitDecode ==
    \E paths \in [1 .. NumImages -> BOOLEAN] : InitWith(paths, NoPx)

NextDecode ==
    \/ C_StoreImageInfo(FALSE)
    \/ C_AddJob(FALSE)
    \/ \E w \in Workers : W_Read(w)
    \/ \E w \in Workers : W_Publish(w, FALSE)
    \/ \E w \in Workers : W_Ack(w, FALSE)
    \/ A_Read("asm-1", FALSE)
    \/ A_Mark("asm-1", FALSE)
    \/ A_Persist("asm-1", FALSE)
    \/ A_Ack("asm-1", FALSE)
    \/ A_Check("asm-1", FALSE)

SpecDecode == InitDecode /\ [][NextDecode]_vars

(* run.sh on a store without keys of an earlier run: the coordinator Job runs
   over a directory in which any file may fail to decode, the worker and
   assembler Deployments run, nothing fails. *)
SpecRun == InitDecode /\ [][NextClean]_vars /\ Fair(FALSE)

(* run.sh once more, when the run before it is over and the workers and the
   assembler wait for messages: the output files are removed, the streams
   deleted with their groups, which EnsureGroups creates again, and the
   coordinator Job is started on the same directory. *)
R_NextRun ==
    /\ hist.run < MaxRuns
    /\ coord.pc = "done"
    /\ jobLast = Len(jobs) /\ \A w \in Workers : wk[w].pc = "read"
    /\ resLast = Len(results) /\ asmb["asm-1"].pc = "read"
    /\ output' = [i \in Images |-> NoFile]
    /\ jobs' = <<>> /\ jobLast' = 0 /\ jobPEL' = <<>>
    /\ results' = <<>> /\ resLast' = 0 /\ resPEL' = <<>>
    /\ coord' = Start(coord.paths)
    /\ hist' = [NoHistory EXCEPT !.run = hist.run + 1]
    /\ UNCHANGED <<info, received, markers, wk, asmb, faults, call, pool, gasm,
                   eq, inproc, grp, status, px>>

NextSecondRun ==
    \/ C_StoreImageInfo(FALSE)
    \/ C_AddJob(FALSE)
    \/ \E w \in Workers : W_Read(w)
    \/ \E w \in Workers : W_Publish(w, FALSE)
    \/ \E w \in Workers : W_Ack(w, FALSE)
    \/ A_Read("asm-1", FALSE)
    \/ A_Mark("asm-1", FALSE)
    \/ A_Persist("asm-1", FALSE)
    \/ A_Ack("asm-1", FALSE)
    \/ A_Check("asm-1", FALSE)
    \/ R_NextRun

SpecSecondRun == Init /\ [][NextSecondRun]_vars

(* Nothing goes wrong in the pipeline, but the streams may hold entries
   that are no well-formed message. *)
NextMalformed ==
    \/ C_StoreImageInfo(FALSE)
    \/ C_AddJob(FALSE)
    \/ X_BadJob
    \/ X_BadResult
    \/ \E w \in Workers : W_Read(w)
    \/ \E w \in Workers : W_Publish(w, FALSE)
    \/ \E w \in Workers : W_Ack(w, FALSE)
    \/ A_Read("asm-1", FALSE)
    \/ A_Mark("asm-1", FALSE)
    \/ A_Persist("asm-1", FALSE)
    \/ A_Ack("asm-1", FALSE)
    \/ A_Check("asm-1", FALSE)

SpecMalformed == Init /\ [][NextMalformed]_vars

(* One image at the level of pixels, for every size, tile edge and kernel
   size within the bounds; the pipeline has nothing to do. *)
InitPixel == \E in \in PxInputs : InitWith(<<>>, PxStart(in))

NextPixel ==
    \/ P_Split
    \/ P_Work
    \/ \E r \in 1 .. MaxTiles : P_Merge(r)

SpecPixel == InitPixel /\ [][NextPixel]_vars

(* The assembler's merge at both levels: either one image at the level of
   pixels, or a directory of several images at the level of tiles, where
   any file may fail to decode. *)
NextMerge ==
    \/ NextPixel
    \/ NextDecode

SpecMerge == (InitPixel \/ InitDecode) /\ [][NextMerge]_vars

---------------------------------------------------------------------------
(* The job queue's operations called by the workers in any order, with
   ClaimStaleJobs as its two store calls and any count *)

MaxCount == 2

(* ReadJob by worker w. *)
Q_ReadJob(w) ==
    /\ call[w].pc = "idle"
    /\ LET id == XReadGroupId(jobs, jobLast)
       IN  /\ id # 0
           /\ jobLast' = id
           /\ jobPEL' = Deliver(jobPEL, id, w)
           /\ hist' = Delivered(hist, "jobs", id)
    /\ UNCHANGED <<jobs, results, resLast, resPEL, info, received, markers, output,
                   coord, wk, asmb, faults, call, pool, gasm, eq, inproc, grp, status, px>>

(* AckJob of a job that was delivered. *)
Q_AckJob(w, id) ==
    /\ call[w].pc = "idle"
    /\ id \in DOMAIN jobPEL
    /\ jobPEL' = XAck(jobPEL, id, TRUE)
    /\ hist' = JobAcked(hist, id)
    /\ UNCHANGED <<jobs, jobLast, results, resLast, resPEL, info, received, markers,
                   output, coord, wk, asmb, faults, call, pool, gasm, eq, inproc, grp, status, px>>

(* ClaimStaleJobs, its XPENDING: with no id to claim it returns. *)
Q_Pending(w, count) ==
    /\ call[w].pc = "idle"
    /\ LET ids == XPendingExt(jobPEL, count)
       IN  call' = [call EXCEPT ![w] =
                      [pc |-> IF ids = {} THEN "idle" ELSE "claiming",
                       count |-> count, ids |-> ids, got |-> {}]]
    /\ UNCHANGED <<pipelineButCall, px>>

(* ClaimStaleJobs, its XCLAIM of the ids XPENDING gave, and the ids of the
   reply returned. *)
Q_Claim(w) ==
    /\ call[w].pc = "claiming"
    /\ jobPEL' = XClaim(jobPEL, call[w].ids, w)
    /\ call' = [call EXCEPT ![w].pc = "idle",
                            ![w].got = XClaimed(jobPEL, call[w].ids)]
    /\ UNCHANGED <<jobs, jobLast, results, resLast, resPEL, info, received, markers,
                   output, coord, wk, asmb, faults, hist, pool, gasm, eq, inproc, grp, status, px>>

NextQueue ==
    \/ C_StoreImageInfo(FALSE)
    \/ C_AddJob(FALSE)
    \/ \E w \in Workers : Q_ReadJob(w)
    \/ \E w \in Workers : \E id \in 1 .. Len(jobs) : Q_AckJob(w, id)
    \/ \E w \in Workers : \E count \in 1 .. MaxCount : Q_Pending(w, count)
    \/ \E w \in Workers : Q_Claim(w)
    \/ Tick

SpecQueue == Init /\ [][NextQueue]_vars

---------------------------------------------------------------------------
(* Variant g's WorkerPool: worker goroutines and the retry monitor on the
   job and result streams, Start and Stop *)

(* The consumer name of the retry monitor, and the pool's WorkerID. *)
RetryMonitor == "retry-monitor"
PoolID == "pool"

(* What the store keeps apart from the job stream and the results, and the
   processes of variant f. *)
besidesPool == <<resLast, resPEL, info, received, markers, output, wk, asmb,
                 hist, call, gasm, eq, inproc, grp, status, px>>

(* Mutant: the worker looks at the context again before AckJob. *)
AfterPublish_CheckCtx(cancelled) == IF cancelled THEN "exited" ELSE "ack"

(* processTile returned nil: on to AckJob. *)
AfterPublish(cancelled) == "ack"

(* What the worker sees of AddResult: XADD's error. *)
G_AddResultReports(ok) == ok

(* Start: the worker goroutines and the retry monitor are started. *)
G_Start ==
    /\ pool.monitor = "new"
    /\ pool' = [pool EXCEPT
                  !.worker = [w \in Workers |-> [@[w] EXCEPT !.pc = "select"]],
                  !.monitor = "run"]
    /\ UNCHANGED <<jobs, jobLast, jobPEL, results, coord, faults, besidesPool>>

(* Stop: the context is cancelled. *)
G_Stop ==
    /\ ~pool.cancelled
    /\ pool' = [pool EXCEPT
                  !.cancelled = TRUE,
                  !.atStop = {pool.worker[w].id : w \in
                                {v \in Workers :
                                    pool.worker[v].pc \in {"publish", "ack"}}}]
    /\ UNCHANGED <<jobs, jobLast, jobPEL, results, coord, faults, besidesPool>>

(* The select at the top of the worker's loop: ctx.Done() is ready: return;
   otherwise the default case, which begins with ReadJob. *)
G_Select(w) ==
    /\ pool.worker[w].pc = "select"
    /\ pool' = [pool EXCEPT
                  !.worker[w].pc = IF pool.cancelled THEN "exited" ELSE "reading"]
    /\ UNCHANGED <<jobs, jobLast, jobPEL, results, coord, faults, besidesPool>>

(* ReadJob returns: nothing within the block time, or data that does not
   decode: back to the select; an invalid job: ack, back to the select; a
   tile job: processTile. *)
G_ReadJob(w) ==
    /\ pool.worker[w].pc = "reading"
    /\ LET id == XReadGroupId(jobs, jobLast)
       IN  IF id = 0
           THEN /\ pool' = [pool EXCEPT !.worker[w].pc = "select"]
                /\ UNCHANGED <<jobLast, jobPEL>>
           ELSE IF ~JobDecodes(jobs[id])
           THEN /\ jobLast' = id
                /\ jobPEL' = Deliver(jobPEL, id, w)
                /\ pool' = [pool EXCEPT !.worker[w].pc = "select"]
           ELSE IF ~ValidJob(jobs[id])
           THEN /\ jobLast' = id
                /\ jobPEL' = XAck(Deliver(jobPEL, id, w), id, TRUE)
                /\ pool' = [pool EXCEPT !.worker[w].pc = "select"]
           ELSE /\ jobLast' = id
                /\ jobPEL' = Deliver(jobPEL, id, w)
                /\ pool' = [pool EXCEPT !.worker[w] =
                              [pc |-> "publish", id |-> id,
                               res |-> Processed(jobs[id].ImageTile)]]
    /\ UNCHANGED <<jobs, results, coord, faults, besidesPool>>

(* processTile: blur, ExtractCenter, AddResult; on its error the job is not
   acknowledged. *)
G_Publish(w, faulty) ==
    /\ pool.worker[w].pc = "publish"
    /\ \E ok \in Outcomes(faulty) :
         /\ results' = XAdd(results, [ProcessedTile |-> pool.worker[w].res,
                                       WorkerID |-> PoolID], ok)
         /\ faults' = Count(ok)
         /\ pool' = IF G_AddResultReports(ok)
                    THEN [pool EXCEPT
                            !.worker[w].pc = AfterPublish(pool.cancelled),
                            !.published = @ \cup {pool.worker[w].id}]
                    ELSE [pool EXCEPT
                            !.worker[w] = [pc |-> "select", id |-> 0, res |-> NoTile],
                            !.failed = @ \cup {pool.worker[w].id}]
    /\ UNCHANGED <<jobs, jobLast, jobPEL, coord, besidesPool>>

(* AckJob, its error dropped; back to the select. *)
G_Ack(w, faulty) ==
    /\ pool.worker[w].pc = "ack"
    /\ \E ok \in Outcomes(faulty) :
         /\ jobPEL' = XAck(jobPEL, pool.worker[w].id, ok)
         /\ faults' = Count(ok)
    /\ pool' = [pool EXCEPT !.worker[w] = [pc |-> "select", id |-> 0, res |-> NoTile]]
    /\ UNCHANGED <<jobs, jobLast, results, coord, besidesPool>>

(* The retry monitor's ticker fires: ClaimStaleJobs under the monitor's
   consumer name; the claimed ids are counted in a log line. *)
G_MonitorTick ==
    /\ pool.monitor = "run"
    /\ jobPEL' = ClaimStaleJobs(jobPEL, RetryMonitor, ClaimCount)
    /\ jobPEL' # jobPEL
    /\ UNCHANGED <<jobs, jobLast, results, coord, faults, pool, besidesPool>>

(* The retry monitor's select takes ctx.Done(): return. *)
G_MonitorExit ==
    /\ pool.monitor = "run"
    /\ pool.cancelled
    /\ pool' = [pool EXCEPT !.monitor = "exited"]
    /\ UNCHANGED <<jobs, jobLast, jobPEL, results, coord, faults, besidesPool>>

(* wg.Wait() of Start returns when every goroutine has returned. *)
G_Return ==
    /\ ~pool.returned
    /\ pool.monitor = "exited"
    /\ \A w \in Workers : pool.worker[w].pc = "exited"
    /\ pool' = [pool EXCEPT !.returned = TRUE]
    /\ UNCHANGED <<jobs, jobLast, jobPEL, results, coord, faults, besidesPool>>

(* The goroutines run whenever they can; Stop comes when a signal does. *)
FairPool(faulty) ==
    /\ WF_vars(G_Start)
    /\ \A w \in Workers :
         /\ WF_vars(G_Select(w))
         /\ WF_vars(G_ReadJob(w))
         /\ WF_vars(G_Publish(w, faulty))
         /\ WF_vars(G_Ack(w, FALSE))
    /\ WF_vars(G_MonitorTick)
    /\ WF_vars(G_MonitorExit)
    /\ WF_vars(G_Return)
    /\ WF_vars(Tick)

(* A worker service that is stopped at any moment; the store does not fail. *)
NextPool ==
    \/ C_StoreImageInfo(FALSE)
    \/ C_AddJob(FALSE)
    \/ G_Start
    \/ G_Stop
    \/ \E w \in Workers : G_Select(w)
    \/ \E w \in Workers : G_ReadJob(w)
    \/ \E w \in Workers : G_Publish(w, FALSE)
    \/ \E w \in Workers : G_Ack(w, FALSE)
    \/ G_MonitorTick
    \/ G_MonitorExit
    \/ G_Return
    \/ Tick

SpecPool == Init /\ [][NextPool]_vars /\ FairPool(FALSE)

(* A worker service that runs on while an AddResult may fail. *)
NextRetry ==
    \/ C_StoreImageInfo(FALSE)
    \/ C_AddJob(FALSE)
    \/ G_Start
    \/ \E w \in Workers : G_Select(w)
    \/ \E w \in Workers : G_ReadJob(w)
    \/ \E w \in Workers : G_Publish(w, TRUE)
    \/ \E w \in Workers : G_Ack(w, FALSE)
    \/ G_MonitorTick
    \/ Tick

SpecRetry == Init /\ [][NextRetry]_vars /\ FairPool(TRUE)

---------------------------------------------------------------------------
(* Variant g's assembler as its README lists it: resultProcessor and
   processTile, with the process killed and started again *)

(* The assembly of an image, created from its ImageInfo when the imageMap
   has none. *)
getOrCreateAssembly(imageMap, imageID) ==
    IF imageMap[imageID].live THEN imageMap[imageID]
    ELSE [live |-> TRUE, info |-> info[imageID], img |-> NewRGBA(imageID),
          tilesReceived |-> 0, processedTiles |-> {}, completed |-> FALSE]

(* ReadResult and processTile up to saveImage: no new message, data that
   does not decode, a nil ProcessedTile, or no ImageInfo: next message
   without an ack; an image that is completed or a tile already in
   processedTiles: ack; a new tile: applied and counted, and on to
   saveImage when the count equals ExpectedTiles, else to the ack. *)
GA_Read ==
    /\ gasm.pc = "read"
    /\ LET id == XReadGroupId(results, resLast)
           tile == results[id].ProcessedTile
           i == tile.ImageID
           asm == getOrCreateAssembly(gasm.imageMap, i)
           applied == [asm EXCEPT !.processedTiles = @ \cup {tile.TileID},
                                  !.img = Apply(@, tile),
                                  !.tilesReceived = @ + 1]
       IN  /\ id # 0
           /\ resLast' = id
           /\ resPEL' = Deliver(resPEL, id, consumer)
           /\ IF ~ResultDecodes(results[id]) \/ tile = NoTile
              THEN UNCHANGED gasm
              ELSE IF ~gasm.imageMap[i].live /\ info[i] = NoInfo
              THEN UNCHANGED gasm
              ELSE IF asm.completed \/ tile.TileID \in asm.processedTiles
              THEN gasm' = [gasm EXCEPT !.pc = "ack", !.id = id, !.tile = tile,
                                        !.imageMap[i] = asm]
              ELSE gasm' = [gasm EXCEPT
                              !.pc = IF applied.tilesReceived = asm.info.ExpectedTiles
                                     THEN "save" ELSE "ack",
                              !.id = id, !.tile = tile, !.imageMap[i] = applied]
    /\ UNCHANGED <<jobs, jobLast, jobPEL, results, info, received, markers, output,
                   coord, wk, asmb, faults, hist, call, pool, eq, inproc, grp, status, px>>

(* saveImage, completed = true, MarkImageCompleted. *)
GA_Save ==
    /\ gasm.pc = "save"
    /\ LET i == gasm.tile.ImageID
       IN  /\ output' = [output EXCEPT ![i] =
                           [exists |-> TRUE, img |-> gasm.imageMap[i].img]]
           /\ status' = [status EXCEPT ![i] = "completed"]
           /\ gasm' = [gasm EXCEPT !.pc = "ack", !.imageMap[i].completed = TRUE]
    /\ UNCHANGED <<jobs, jobLast, jobPEL, results, resLast, resPEL, info, received,
                   markers, coord, wk, asmb, faults, hist, call, pool, eq,
                   inproc, grp, px>>

(* processTile returned nil: AckResult. *)
GA_Ack ==
    /\ gasm.pc = "ack"
    /\ resPEL' = XAck(resPEL, gasm.id, TRUE)
    /\ gasm' = [gasm EXCEPT !.pc = "read", !.id = 0, !.tile = NoTile]
    /\ UNCHANGED <<jobs, jobLast, jobPEL, results, resLast, info, received, markers,
                   output, coord, wk, asmb, faults, hist, call, pool, eq, inproc, grp, status, px>>

(* The assembler process is killed while an image has some of its tiles and
   is not saved, and is started again with an empty imageMap. *)
GA_Crash ==
    /\ gasm.crashes < MaxFaults
    /\ \E i \in Images :
         /\ gasm.imageMap[i].live
         /\ gasm.imageMap[i].tilesReceived > 0
         /\ ~output[i].exists
    /\ gasm' = [NewAssembler EXCEPT !.crashes = gasm.crashes + 1]
    /\ UNCHANGED <<jobs, jobLast, jobPEL, results, resLast, resPEL, info, received,
                   markers, output, coord, wk, asmb, faults, hist, call, pool,
                   eq, inproc, grp, status, px>>

NextCheckpoint ==
    \/ C_StoreImageInfo(FALSE)
    \/ C_AddJob(FALSE)
    \/ G_Start
    \/ \E w \in Workers : G_Select(w)
    \/ \E w \in Workers : G_ReadJob(w)
    \/ \E w \in Workers : G_Publish(w, FALSE)
    \/ \E w \in Workers : G_Ack(w, FALSE)
    \/ GA_Read
    \/ GA_Save
    \/ GA_Ack
    \/ GA_Crash

SpecCheckpoint == Init /\ [][NextCheckpoint]_vars

---------------------------------------------------------------------------
(* Variant e: Redis lists as queues, a pop removes the entry *)

(* PushJob of the tile the coordinator is at: LPUSH; BRPOP takes from the
   other end, so the list is first in, first out. *)
E_PushJob ==
    /\ coord.pc = "add"
    /\ LET b == Bounds(coord.img)
           tw == min(TILE_SIZE, b.Width - coord.x)
           th == min(TILE_SIZE, b.Height - coord.y)
           tile == extractTileWithPadding(coord.img, coord.tileID, coord.x,
                                          coord.y, tw, th, padding)
       IN  eq' = [eq EXCEPT !.jobs = Append(@, [Type |-> "tile", ImageTile |-> tile])]
    /\ coord' = NextTile(coord)
    /\ UNCHANGED <<jobs, jobLast, jobPEL, results, resLast, resPEL, info, received,
                   markers, output, wk, asmb, faults, hist, call, pool, gasm,
                   inproc, grp, status, px>>

(* The worker's PopJob: the job leaves the list; an invalid job is dropped,
   a tile job is blurred. *)
E_PopJob(w) ==
    /\ eq.worker[w].pc = "pop"
    /\ eq.jobs # <<>>
    /\ LET job == Head(eq.jobs)
       IN  eq' = [eq EXCEPT
                    !.jobs = Tail(@),
                    !.worker[w] = IF ValidJob(job)
                                  THEN [pc |-> "push", job |-> job.ImageTile]
                                  ELSE @]
    /\ UNCHANGED <<jobs, jobLast, jobPEL, results, resLast, resPEL, info, received,
                   markers, output, coord, wk, asmb, faults, hist, call, pool, gasm,
                   inproc, grp, status, px>>

(* PushResult of the blurred centre and IncrementProgress. *)
E_PushResult(w) ==
    /\ eq.worker[w].pc = "push"
    /\ LET tile == eq.worker[w].job
       IN  eq' = [eq EXCEPT
                    !.results = Append(@, [ProcessedTile |-> Processed(tile),
                                           WorkerID |-> w]),
                    !.progress[tile.ImageID] = @ + 1,
                    !.worker[w] = [pc |-> "pop", job |-> NilTile]]
    /\ UNCHANGED <<jobs, jobLast, jobPEL, results, resLast, resPEL, info, received,
                   markers, output, coord, wk, asmb, faults, hist, call, pool, gasm,
                   inproc, grp, status, px>>

(* The worker is killed after PopJob and before PushResult, and its
   replacement starts. *)
E_WorkerCrash(w) ==
    /\ eq.worker[w].pc = "push"
    /\ faults < MaxFaults
    /\ faults' = faults + 1
    /\ LET tile == eq.worker[w].job
       IN  eq' = [eq EXCEPT
                    !.worker[w] = [pc |-> "pop", job |-> NilTile],
                    !.lost = @ \cup {<<tile.ImageID, tile.TileID>>}]
    /\ UNCHANGED <<jobs, jobLast, jobPEL, results, resLast, resPEL, info, received,
                   markers, output, coord, wk, asmb, hist, call, pool, gasm,
                   inproc, grp, status, px>>

(* The completion check of e's assembler. *)
E_Complete(tilesReceived, expectedTiles) == tilesReceived >= expectedTiles

(* The assembler's loop body: PopResult; the image's assembler, created
   from its ImageInfo (without one the result is dropped); the tile counted
   and placed; when the count reaches ExpectedTiles saveImage and the
   assembler deleted. *)
E_Assemble ==
    /\ eq.results # <<>>
    /\ LET tile == Head(eq.results).ProcessedTile
           i == tile.ImageID
           asm == IF eq.assemblers[i].live THEN eq.assemblers[i]
                  ELSE [live |-> TRUE, img |-> NewRGBA(i), tilesReceived |-> 0]
           placed == [asm EXCEPT !.img = Apply(@, tile), !.tilesReceived = @ + 1]
       IN  IF ~eq.assemblers[i].live /\ info[i] = NoInfo
           THEN /\ eq' = [eq EXCEPT !.results = Tail(@)]
                /\ UNCHANGED output
           ELSE IF E_Complete(placed.tilesReceived, info[i].ExpectedTiles)
           THEN /\ output' = [output EXCEPT ![i] = [exists |-> TRUE, img |-> placed.img]]
                /\ eq' = [eq EXCEPT
                            !.results = Tail(@),
                            !.received[i] = @ + 1,
                            !.assemblers[i] =
                               [live |-> FALSE, img |-> <<>>, tilesReceived |-> 0]]
           ELSE /\ eq' = [eq EXCEPT !.results = Tail(@),
                                    !.received[i] = @ + 1,
                                    !.assemblers[i] = placed]
                /\ UNCHANGED output
    /\ UNCHANGED <<jobs, jobLast, jobPEL, results, resLast, resPEL, info,
                   received, markers, coord, wk, asmb, faults, hist, call,
                   pool, gasm, inproc, grp, status, px>>

NextBaseline ==
    \/ C_StoreImageInfo(FALSE)
    \/ E_PushJob
    \/ \E w \in Workers : E_PopJob(w)
    \/ \E w \in Workers : E_PushResult(w)
    \/ \E w \in Workers : E_WorkerCrash(w)
    \/ E_Assemble

SpecBaseline == InitDecode /\ [][NextBaseline]_vars

---------------------------------------------------------------------------
(* The in-process variants: a_sequential.go's processImageWithTiles (a),
   b's RunParallelSingle (b) and c's Run_c (c).  Goroutines talk over
   buffered channels; a send on a closed channel and the close of a closed
   channel panic, and the panic ends the program. *)

(* The number of worker goroutines and the capacity of the queues: 10 and
   100 in the source. *)
NUM_WORKERS == 2
QUEUE_SIZE == 1

GoWorkers == 1 .. NUM_WORKERS

besidesInproc == <<jobs, jobLast, jobPEL, results, resLast, resPEL, info,
                   received, markers, output, coord, wk, asmb, faults, hist,
                   call, pool, gasm, eq, grp, status, px>>

Running == inproc.variant # "none" /\ inproc.panic = "none"

(* A send can go on when the buffer has room; on a closed channel it does
   not wait, it panics. *)
Room(c) == c.closed \/ Len(c.buf) < c.cap

(* ch <- v *)
Send(ip, ch, v) ==
    IF ip[ch].closed THEN [ip EXCEPT !.panic = "send on closed channel"]
    ELSE [ip EXCEPT ![ch].buf = Append(@, v)]

(* close(ch) *)
Close(ip, ch) ==
    IF ip[ch].closed THEN [ip EXCEPT !.panic = "close of closed channel"]
    ELSE [ip EXCEPT ![ch].closed = TRUE]

(* tileQueue <- cmd, with the record of what was enqueued. *)
SendCmd(ip, cmd) ==
    IF ip.tileQueue.closed THEN [ip EXCEPT !.panic = "send on closed channel"]
    ELSE [ip EXCEPT !.tileQueue.buf = Append(@, cmd), !.sent = Append(@, cmd)]

ProcessCmd(i, t) == [Type |-> "process", ImageID |-> i, TileID |-> t]
DoneCmd == [Type |-> "done", ImageID |-> -1, TileID |-> -1]

StartedWorkers == [w \in GoWorkers |-> [pc |-> "recv", tile |-> DoneCmd, dones |-> 0]]

(* Mutant: one 'done' command fewer than there are workers. *)
DoneCommands_OneShort == NUM_WORKERS - 1

(* for i := 0; i < NUM_WORKERS; i++ { tileQueue <- done } *)
DoneCommands == NUM_WORKERS

(* Mutant: the collecting loop of processImageWithTiles left at once. *)
totalTiles_None(imageID) == 0

(* totalTiles of processImageWithTiles. *)
totalTiles(imageID) == expected(imageID)

(* Mutant: the assembler's loop left one tile early. *)
expectedTiles_OneShort(imageID) == expected(imageID) - 1

(* expectedTiles of RunParallelSingle. *)
expectedTiles(imageID) == expected(imageID)

(* assemblerChannels[tile.ImageID] *)
Route(list, tile) == tile.ImageID

(* processImageWithTiles up to its collecting loop: the queues are made,
   the workers and the coordinator started. *)
processImageWithTiles(i) ==
    /\ inproc.variant = "none"
    /\ inproc' = [NoRun EXCEPT
                    !.variant = "a", !.imageDataList = <<i>>,
                    !.main = "gather", !.co.pc = "tiles",
                    !.tileQueue = NewChan(QUEUE_SIZE),
                    !.resultQueue = NewChan(QUEUE_SIZE),
                    !.worker = StartedWorkers,
                    !.asm[i].pc = "recv"]
    /\ UNCHANGED besidesInproc

(* RunParallelSingle up to its wait for the assembler: the image is
   loaded, the coordinator, the workers and the assembler started. *)
RunParallelSingle(i) ==
    /\ inproc.variant = "none"
    /\ inproc' = [NoRun EXCEPT
                    !.variant = "b", !.imageDataList = <<i>>,
                    !.main = "waitAsm", !.co.pc = "tiles",
                    !.tileQueue = NewChan(QUEUE_SIZE),
                    !.resultQueue = NewChan(QUEUE_SIZE),
                    !.worker = StartedWorkers,
                    !.asm[i].pc = "recv"]
    /\ UNCHANGED besidesInproc

(* Run_c up to its loop over imageDataChannel: the channels are made and
   pipelineReader has started one goroutine per path, and the one that
   closes the channel; paths[i] tells whether file i opens and decodes. *)
Run_c(paths) ==
    /\ inproc.variant = "none"
    /\ inproc' = [NoRun EXCEPT
                    !.variant = "c", !.paths = paths,
                    !.reader = [i \in Images |-> "load"],
                    !.closer = "wait",
                    !.imageDataChannel = NewChan(NumImages),
                    !.tileQueue = NewChan(QUEUE_SIZE * 2),
                    !.resultQueue = NewChan(QUEUE_SIZE * 2),
                    !.main = "collect"]
    /\ UNCHANGED besidesInproc

(* pipelineReader's goroutine for one path: the image is sent on
   imageDataChannel, or the goroutine returns on a failure. *)
Rc_Load(i) ==
    /\ Running /\ inproc.reader[i] = "load"
    /\ Room(inproc.imageDataChannel)
    /\ inproc' = IF inproc.paths[i]
                 THEN Send([inproc EXCEPT !.reader[i] = "done"],
                           "imageDataChannel", i)
                 ELSE [inproc EXCEPT !.reader[i] = "done"]
    /\ UNCHANGED besidesInproc

(* wg.Wait(); close(imageDataChannel) *)
Rc_CloseImages ==
    /\ Running /\ inproc.closer = "wait"
    /\ \A i \in Images : inproc.reader[i] = "done"
    /\ inproc' = Close([inproc EXCEPT !.closer = "exit"], "imageDataChannel")
    /\ UNCHANGED besidesInproc

(* for imgData := range imageDataChannel *)
Rc_Collect ==
    /\ Running /\ inproc.main = "collect"
    /\ LET c == inproc.imageDataChannel
       IN  \/ /\ c.buf # <<>>
              /\ inproc' = [inproc EXCEPT
                              !.imageDataChannel.buf = Tail(@),
                              !.imageDataList = Append(@, Head(c.buf))]
           \/ /\ c.buf = <<>> /\ c.closed
              /\ inproc' = [inproc EXCEPT !.main = "start"]
    /\ UNCHANGED besidesInproc

(* Run_c starts the coordinator, the workers and the assembler manager,
   which makes a channel and an assembler for every image loaded. *)
Rc_Start ==
    /\ Running /\ inproc.main = "start"
    /\ LET list == inproc.imageDataList
           ids == {list[k] : k \in 1 .. Len(list)}
       IN  inproc' = [inproc EXCEPT
                        !.main = "wait",
                        !.co.pc = IF list = <<>> THEN "done" ELSE "tiles",
                        !.worker = StartedWorkers,
                        !.mgr.pc = "route",
                        !.asmChan = [i \in Images |->
                                       IF i \in ids THEN NewChan(QUEUE_SIZE) ELSE @[i]],
                        !.asm = [i \in Images |->
                                   IF i \in ids THEN [@[i] EXCEPT !.pc = "recv"]
                                   ELSE @[i]]]
    /\ UNCHANGED besidesInproc

(* The coordinator's tile loop: the next tile of the image is put on the
   tile queue; after the last tile of the last image come the 'done'
   commands (b, c) or the return (a). *)
Coordinator_Tile ==
    /\ Running /\ inproc.co.pc = "tiles"
    /\ Room(inproc.tileQueue)
    /\ LET co == inproc.co
           i == inproc.imageDataList[co.k]
           next == IF co.tileID + 1 < expected(i)
                   THEN [co EXCEPT !.tileID = @ + 1]
                   ELSE IF co.k < Len(inproc.imageDataList)
                   THEN [co EXCEPT !.k = @ + 1, !.tileID = 0]
                   ELSE [co EXCEPT !.pc = IF inproc.variant = "a" THEN "exit"
                                          ELSE "done"]
       IN  inproc' = SendCmd([inproc EXCEPT !.co = next], ProcessCmd(i, co.tileID))
    /\ UNCHANGED besidesInproc

(* The coordinator's loop over the 'done' commands. *)
Coordinator_Done ==
    /\ Running /\ inproc.co.pc = "done"
    /\ IF inproc.co.dones < DoneCommands
       THEN /\ Room(inproc.tileQueue)
            /\ inproc' = SendCmd([inproc EXCEPT !.co.dones = @ + 1], DoneCmd)
       ELSE inproc' = [inproc EXCEPT !.co.pc = "exit"]
    /\ UNCHANGED besidesInproc

(* for cmd := range tileQueue: the worker takes a command; on 'done' and
   at the end of a closed queue it returns (wg.Done), a tile it blurs. *)
Worker_Recv(w) ==
    /\ Running /\ w \in DOMAIN inproc.worker
    /\ inproc.worker[w].pc = "recv"
    /\ LET c == inproc.tileQueue
       IN  \/ /\ c.buf = <<>> /\ c.closed
              /\ inproc' = [inproc EXCEPT !.worker[w].pc = "exited"]
           \/ /\ c.buf # <<>>
              /\ inproc' =
                   IF Head(c.buf).Type = "done"
                   THEN [inproc EXCEPT !.tileQueue.buf = Tail(@),
                                       !.worker[w].pc = "exited",
                                       !.worker[w].dones = @ + 1]
                   ELSE [inproc EXCEPT
                           !.tileQueue.buf = Tail(@),
                           !.worker[w].pc = "send",
                           !.worker[w].tile = Head(c.buf),
                           !.blurred[<<Head(c.buf).ImageID, Head(c.buf).TileID>>] =
                               @ + 1]
    /\ UNCHANGED besidesInproc

(* resultQueue <- the processed tile *)
Worker_Send(w) ==
    /\ Running /\ w \in DOMAIN inproc.worker
    /\ inproc.worker[w].pc = "send"
    /\ Room(inproc.resultQueue)
    /\ inproc' = Send([inproc EXCEPT !.worker[w].pc = "recv",
                                      !.worker[w].tile = DoneCmd], "resultQueue",
                      [ImageID |-> inproc.worker[w].tile.ImageID,
                       TileID |-> inproc.worker[w].tile.TileID])
    /\ UNCHANGED besidesInproc

(* The image whose tiles the single assembler of a and b collects. *)
TheImage == inproc.imageDataList[1]

(* processImageWithTiles: for i := 0; i < totalTiles; i++ { <-resultQueue;
   assembleProcessedTile }. *)
Ra_Gather ==
    /\ Running /\ inproc.variant = "a" /\ inproc.main = "gather"
    /\ LET i == TheImage
       IN  IF inproc.asm[i].tilesReceived < totalTiles(i)
           THEN /\ inproc.resultQueue.buf # <<>>
                /\ inproc' = [inproc EXCEPT
                                !.resultQueue.buf = Tail(@),
                                !.asm[i].tilesReceived = @ + 1,
                                !.asm[i].merged =
                                    @ \cup {Head(inproc.resultQueue.buf).TileID}]
           ELSE inproc' = [inproc EXCEPT !.main = "closeTiles"]
    /\ UNCHANGED besidesInproc

(* close(tileQueue) *)
Ra_CloseTiles ==
    /\ Running /\ inproc.main = "closeTiles"
    /\ inproc' = Close([inproc EXCEPT !.main = "wait"], "tileQueue")
    /\ UNCHANGED besidesInproc

(* assemblerQuiet: for tilesReceived < expectedTiles { <-resultQueue; place
   the tile }. *)
Rb_Assemble ==
    /\ Running /\ inproc.variant = "b"
    /\ inproc.asm[TheImage].pc = "recv"
    /\ LET i == TheImage
       IN  IF inproc.asm[i].tilesReceived < expectedTiles(i)
           THEN /\ inproc.resultQueue.buf # <<>>
                /\ inproc' = [inproc EXCEPT
                                !.resultQueue.buf = Tail(@),
                                !.asm[i].tilesReceived = @ + 1,
                                !.asm[i].merged =
                                    @ \cup {Head(inproc.resultQueue.buf).TileID}]
           ELSE inproc' = [inproc EXCEPT !.asm[i].pc = "save"]
    /\ UNCHANGED besidesInproc

(* assemblerQuiet writes the output file. *)
Rb_Save ==
    /\ Running /\ inproc.variant = "b"
    /\ inproc.asm[TheImage].pc = "save"
    /\ inproc' = [inproc EXCEPT
                    !.asm[TheImage].pc = "signal",
                    !.saved[TheImage] =
                        [exists |-> TRUE, tiles |-> inproc.asm[TheImage].merged]]
    /\ UNCHANGED besidesInproc

(* assemblerDone <- true, received by RunParallelSingle: the channel has
   no buffer, the two meet. *)
Rb_AssemblerDone ==
    /\ Running /\ inproc.variant = "b" /\ inproc.main = "waitAsm"
    /\ inproc.asm[TheImage].pc = "signal"
    /\ inproc' = [inproc EXCEPT !.asm[TheImage].pc = "exited", !.main = "wait"]
    /\ UNCHANGED besidesInproc

(* wg.Wait(): every worker has returned. *)
Main_Wait ==
    /\ Running /\ inproc.main = "wait"
    /\ \A w \in DOMAIN inproc.worker : inproc.worker[w].pc = "exited"
    /\ inproc' = [inproc EXCEPT !.main = "closeResults"]
    /\ UNCHANGED besidesInproc

(* close(resultQueue); a and b return then, a with the assembled image, c
   goes on to wait for the assembler manager. *)
Main_CloseResults ==
    /\ Running /\ inproc.main = "closeResults"
    /\ LET ip == [inproc EXCEPT
                    !.main = IF inproc.variant = "c" THEN "waitAsm" ELSE "returned",
                    !.saved = IF inproc.variant = "a"
                              THEN [@ EXCEPT ![TheImage] =
                                      [exists |-> TRUE,
                                       tiles |-> inproc.asm[TheImage].merged]]
                              ELSE @]
       IN  inproc' = Close(ip, "resultQueue")
    /\ UNCHANGED besidesInproc

(* pipelineAssemblerManager: for tile := range resultQueue. *)
Rc_Route ==
    /\ Running /\ inproc.mgr.pc = "route"
    /\ LET c == inproc.resultQueue
       IN  \/ /\ c.buf # <<>>
              /\ inproc' = [inproc EXCEPT !.resultQueue.buf = Tail(@),
                                          !.mgr = [pc |-> "fwd", tile |-> Head(c.buf)]]
           \/ /\ c.buf = <<>> /\ c.closed
              /\ inproc' = [inproc EXCEPT !.mgr.pc = "close"]
    /\ UNCHANGED besidesInproc

(* assemblerChan <- tile, when the image has an assembler. *)
Rc_Forward ==
    /\ Running /\ inproc.mgr.pc = "fwd"
    /\ LET i == Route(inproc.imageDataList, inproc.mgr.tile)
           c == inproc.asmChan[i]
       IN  IF inproc.asm[i].pc = "off"
           THEN inproc' = [inproc EXCEPT !.mgr = [pc |-> "route", tile |-> <<>>]]
           ELSE /\ Room(c)
                /\ inproc' =
                     IF c.closed
                     THEN [inproc EXCEPT !.panic = "send on closed channel"]
                     ELSE [inproc EXCEPT !.mgr = [pc |-> "route", tile |-> <<>>],
                                         !.asmChan[i].buf = Append(@, inproc.mgr.tile)]
    /\ UNCHANGED besidesInproc

(* The manager closes every assembler channel. *)
Rc_CloseAssemblers ==
    /\ Running /\ inproc.mgr.pc = "close"
    /\ inproc' =
         IF \E i \in Images : inproc.asm[i].pc # "off" /\ inproc.asmChan[i].closed
         THEN [inproc EXCEPT !.panic = "close of closed channel"]
         ELSE [inproc EXCEPT
                 !.mgr.pc = "wait",
                 !.asmChan = [i \in Images |->
                                IF inproc.asm[i].pc # "off"
                                THEN [@[i] EXCEPT !.closed = TRUE] ELSE @[i]]]
    /\ UNCHANGED besidesInproc

(* pipelineAssembler: for tile := range tileChannel, the tile placed in
   the output image. *)
Rc_Assemble(i) ==
    /\ Running /\ inproc.variant = "c" /\ inproc.asm[i].pc = "recv"
    /\ LET c == inproc.asmChan[i]
       IN  \/ /\ c.buf # <<>>
              /\ inproc' = [inproc EXCEPT
                              !.asmChan[i].buf = Tail(@),
                              !.asm[i].tilesReceived = @ + 1,
                              !.asm[i].merged = @ \cup {<<Head(c.buf).ImageID,
                                                         Head(c.buf).TileID>>}]
           \/ /\ c.buf = <<>> /\ c.closed
              /\ inproc' = [inproc EXCEPT !.asm[i].pc = "save"]
    /\ UNCHANGED besidesInproc

(* pipelineAssembler writes the output file and returns. *)
Rc_Save(i) ==
    /\ Running /\ inproc.variant = "c" /\ inproc.asm[i].pc = "save"
    /\ inproc' = [inproc EXCEPT
                    !.asm[i].pc = "exited",
                    !.saved[i] = [exists |-> TRUE, tiles |-> inproc.asm[i].merged]]
    /\ UNCHANGED besidesInproc

(* internalAssemblerWG.Wait(); the manager returns. *)
Rc_ManagerExit ==
    /\ Running /\ inproc.mgr.pc = "wait"
    /\ \A i \in Images : inproc.asm[i].pc \in {"off", "exited"}
    /\ inproc' = [inproc EXCEPT !.mgr.pc = "exited"]
    /\ UNCHANGED besidesInproc

(* assemblerWG.Wait(); Run_c returns. *)
Rc_Return ==
    /\ Running /\ inproc.variant = "c" /\ inproc.main = "waitAsm"
    /\ inproc.mgr.pc = "exited"
    /\ inproc' = [inproc EXCEPT !.main = "returned"]
    /\ UNCHANGED besidesInproc

(* The steps of the goroutines the variants share. *)
NextGo ==
    \/ Coordinator_Tile
    \/ \E w \in GoWorkers : Worker_Recv(w)
    \/ \E w \in GoWorkers : Worker_Send(w)
    \/ Main_Wait
    \/ Main_CloseResults

(* Run_c for every set of input files that decode. *)
NextRunC ==
    \/ \E paths \in [Images -> BOOLEAN] : Run_c(paths)
    \/ \E i \in Images : Rc_Load(i)
    \/ Rc_CloseImages
    \/ Rc_Collect
    \/ Rc_Start
    \/ Coordinator_Done
    \/ Rc_Route
    \/ Rc_Forward
    \/ Rc_CloseAssemblers
    \/ \E i \in Images : Rc_Assemble(i)
    \/ \E i \in Images : Rc_Save(i)
    \/ Rc_ManagerExit
    \/ Rc_Return
    \/ NextGo

(* The Go scheduler runs a goroutine that can run. *)
SpecRunC == Init /\ [][NextRunC]_vars /\ WF_vars(NextRunC)

(* RunParallelSingle for every image of the input. *)
NextRunB ==
    \/ \E i \in Images : RunParallelSingle(i)
    \/ Coordinator_Done
    \/ Rb_Assemble
    \/ Rb_Save
    \/ Rb_AssemblerDone
    \/ NextGo

SpecRunB == Init /\ [][NextRunB]_vars /\ WF_vars(NextRunB)

(* Any of the three in-process variants. *)
NextInProcess ==
    \/ \E i \in Images : processImageWithTiles(i)
    \/ Ra_Gather
    \/ Ra_CloseTiles
    \/ \E i \in Images : RunParallelSingle(i)
    \/ Rb_Assemble
    \/ Rb_Save
    \/ Rb_AssemblerDone
    \/ NextRunC

SpecInProcess == Init /\ [][NextInProcess]_vars /\ WF_vars(NextInProcess)

---------------------------------------------------------------------------
(* The consumer groups of f: every process calls EnsureGroups when it
   starts, run.sh deletes the stream keys, and with a key its groups, before
   it starts the coordinator Job, while the worker and assembler
   Deployments go on running.  A message is <<run, number>>. *)

besidesGrp == <<jobs, jobLast, jobPEL, results, resLast, resPEL, info,
                received, markers, output, coord, wk, asmb, faults, hist,
                call, pool, gasm, eq, inproc, status, px>>

(* XGROUP CREATE stream group $ MKSTREAM: a group that exists stays as it
   is (BUSYGROUP, the error dropped); a new one starts after the last entry
   of the stream. *)
XGroupCreateMkStream(g, stream) ==
    [s \in Streams |->
        IF g[s].exists THEN g[s]
        ELSE [exists |-> TRUE, start |-> Len(stream[s]), last |-> Len(stream[s])]]

(* EnsureGroups at the start of the coordinator, the worker, the assembler. *)
EnsureGroups(p) ==
    /\ grp.proc[p] = "ensure"
    /\ grp' = [grp EXCEPT !.group = XGroupCreateMkStream(grp.group, grp.stream),
                          !.proc[p] = IF p = "coordinator" THEN "add" ELSE "read"]
    /\ UNCHANGED besidesGrp

(* run.sh: redis-cli DEL ftq:jobs ftq:results, then the coordinator Job is
   applied; the Job of the run before has completed or there was none. *)
RunSh ==
    /\ grp.run < MaxRuns
    /\ grp.proc["coordinator"] \in {"off", "done"}
    /\ grp' = [grp EXCEPT !.stream = [s \in Streams |-> <<>>],
                          !.group = [s \in Streams |-> NoGroup],
                          !.proc["coordinator"] = "ensure",
                          !.sent = 0, !.run = @ + 1]
    /\ UNCHANGED besidesGrp

(* The coordinator's AddJob for the next tile: XADD ftq:jobs. *)
EG_AddJob ==
    /\ grp.proc["coordinator"] = "add"
    /\ grp' = [grp EXCEPT
                 !.stream["ftq:jobs"] = Append(@, <<grp.run, grp.sent + 1>>),
                 !.sent = @ + 1,
                 !.proc["coordinator"] =
                     IF grp.sent + 1 < expected(0) THEN "add" ELSE "done"]
    /\ UNCHANGED besidesGrp

(* ReadJob: XREADGROUP workers ">"; without the group the call fails and
   the worker's loop goes round. *)
EG_ReadJob ==
    /\ grp.proc["worker"] = "read"
    /\ grp.group["ftq:jobs"].exists
    /\ grp.group["ftq:jobs"].last < Len(grp.stream["ftq:jobs"])
    /\ grp' = [grp EXCEPT
                 !.group["ftq:jobs"].last = @ + 1,
                 !.job = grp.stream["ftq:jobs"][grp.group["ftq:jobs"].last + 1],
                 !.proc["worker"] = "publish"]
    /\ UNCHANGED besidesGrp

(* AddResult: XADD ftq:results, which makes the stream when the key is not
   there; then AckJob. *)
EG_AddResult ==
    /\ grp.proc["worker"] = "publish"
    /\ grp' = [grp EXCEPT !.stream["ftq:results"] = Append(@, grp.job),
                          !.job = <<>>,
                          !.proc["worker"] = "read"]
    /\ UNCHANGED besidesGrp

(* ReadResult: XREADGROUP assemblers ">", and the AckResult that follows. *)
EG_ReadResult ==
    /\ grp.proc["assembler"] = "read"
    /\ grp.group["ftq:results"].exists
    /\ grp.group["ftq:results"].last < Len(grp.stream["ftq:results"])
    /\ grp' = [grp EXCEPT !.group["ftq:results"].last = @ + 1]
    /\ UNCHANGED besidesGrp

NextGroups ==
    \/ \E p \in {"coordinator", "worker", "assembler"} : EnsureGroups(p)
    \/ RunSh
    \/ EG_AddJob
    \/ EG_ReadJob
    \/ EG_AddResult
    \/ EG_ReadResult

SpecGroups == Init /\ [][NextGroups]_vars

---------------------------------------------------------------------------
(* What the claims speak of *)

(* The output of a run in which every tile was blurred and applied. *)
FullImage(i) == [t \in TileIds(i) |-> <<"blur", i, t>>]

(* The TileIDs 0 .. ExpectedTiles-1 of an image. *)
ExpectedIds(i) == 0 .. (ImageInfoOf(i).ExpectedTiles - 1)

(* C1. Completion exactness: whenever the output file of an image has been
   written (and whenever a save has happened), every TileID in
   0 .. ExpectedTiles-1 of the image is in its received set. *)
C1_CompletionExactness ==
    \A i \in Images :
        (output[i].exists \/ hist.saves[i] > 0) => ExpectedIds(i) \subseteq received[i]

(* An image has been saved in a run in which something went wrong. *)
C1_Witness == output[0].exists /\ faults > 0

(* C2. No partial output: every output file was encoded from a buffer that
   held all the tiles of the image. *)
C2_NoPartialOutput ==
    \A i \in Images : output[i].exists => output[i].img = FullImage(i)

(* The images of the input directory that decode. *)
Batch == {i \in Images : i < Len(coord.paths) /\ coord.paths[i + 1]}

(* Every image has been saved, with the output of a run without a crash. *)
AllSaved == \A i \in Batch : output[i].exists /\ output[i].img = FullImage(i)

(* C3. Crash-and-recover: once all the workers have been killed with a job
   read and its result not published, and restarted, every image is
   eventually saved with the output of a run without a crash. *)
C3_CrashRecover == hist.killed ~> AllSaved

(* The tile of job id has a result in the result stream. *)
HasResult(id) ==
    /\ id <= Len(jobs)
    /\ \E r \in 1 .. Len(results) :
        /\ results[r].ProcessedTile.ImageID = jobs[id].ImageTile.ImageID
        /\ results[r].ProcessedTile.TileID = jobs[id].ImageTile.TileID

JobIds == 1 .. (Cardinality(Slots) * (MaxRestarts + 1))

(* C4. At-least-once delivery of jobs: a job that is pending and has been
   idle for the visibility timeout is eventually processed, its result
   published, while the workers keep running. *)
C4_AtLeastOnce ==
    \A id \in JobIds :
        (id \in DOMAIN jobPEL /\ jobPEL[id].stale) ~> HasResult(id)

(* C5. Worker ordering: a job that has been acknowledged has a result with
   its (ImageID, TileID) in the result stream. *)
C5_AckAfterPublish ==
    \A id \in 1 .. Len(jobs) : Acked(jobLast, jobPEL, id) => HasResult(id)

(* C6. Completion liveness: once every expected TileID of an image is in
   its received set, the image is eventually saved. *)
C6_CompletionLiveness ==
    \A i \in Images : (ExpectedIds(i) \subseteq received[i]) ~> output[i].exists

(* The acknowledgements of results of one tile, by how the assembler came
   to acknowledge. *)
AcksOf(slot, kind) ==
    {e \in hist.acks :
        /\ e.kind = kind
        /\ results[e.id].ProcessedTile.ImageID = slot[1]
        /\ results[e.id].ProcessedTile.TileID = slot[2]}

(* Nothing is in flight: every job and every result has been handled. *)
Quiescent ==
    /\ coord.pc = "done"
    /\ jobLast = Len(jobs) /\ \A w \in Workers : wk[w].pc = "read"
    /\ resLast = Len(results) /\ \A a \in Assemblers : asmb[a].pc = "read"

(* C7. Idempotent assembly: however often a tile is delivered, it is
   applied to the buffer once, every further delivery is acknowledged as a
   duplicate, the file is written once and is the file of a run in which
   every tile is delivered once; when all deliveries are handled the image
   has been saved. *)
C7_IdempotentAssembly ==
    /\ \A s \in Slots :
         /\ hist.merged[s] <= 1
         /\ Cardinality(AcksOf(s, "applied")) <= 1
    /\ \A e \in hist.acks : e.kind \in {"applied", "duplicate"}
    /\ \A i \in Images :
         output[i].exists => output[i].img = FullImage(i) /\ hist.saves[i] = 1
    /\ Quiescent => AllSaved

(* A tile was delivered twice, the second delivery discarded, and the image
   is saved. *)
C7_Witness ==
    /\ \E s \in Slots : AcksOf(s, "applied") # {} /\ AcksOf(s, "duplicate") # {}
    /\ AllSaved

C9_OneWinner ==
    \A s \in Slots :
        /\ hist.added[s] <= 1
        /\ hist.merged[s] <= hist.added[s]
        /\ Cardinality(AcksOf(s, "applied")) <= 1
        /\ AcksOf(s, "duplicate") # {} => hist.added[s] = 1
        /\ AcksOf(s, "applied") # {} => hist.merged[s] = 1
        /\ AcksOf(s, "noinfo") = {}

(* Two assemblers each handled a delivery of the same tile: one applied
   it, the other discarded it. *)
C9_Witness ==
    \E s \in Slots :
        \E e1 \in AcksOf(s, "applied") :
            \E e2 \in AcksOf(s, "duplicate") : e1.by # e2.by

(* C10. Durable apply before ack: every acknowledged result was
   acknowledged after its tile was applied (marker written, buffer
   updated) or after it was found in the received set. *)
C10_ApplyBeforeAck ==
    \A id \in 1 .. resLast :
        id \notin DOMAIN resPEL =>
            \E e \in hist.acks : e.id = id /\ e.kind \in {"applied", "duplicate"}

(* The tile of result id has been merged into its image's buffer. *)
MergedResult(id) ==
    /\ id <= Len(results)
    /\ hist.merged[<<results[id].ProcessedTile.ImageID,
                     results[id].ProcessedTile.TileID>>] > 0

(* C11. Assembler-side redelivery: a result that was read and is left
   unacknowledged while the assembler is back at the top of its loop (it
   was killed, or took an error path) is eventually merged into the
   image. *)
C11_Redelivery ==
    \A id \in JobIds :
        (id \in DOMAIN resPEL /\ asmb["asm-1"].pc = "read") ~> MergedResult(id)

(* The pixel p lies in the unpadded region of the tile. *)
InTile(tile, p) ==
    /\ tile.X <= p[1] /\ p[1] < tile.X + tile.Width
    /\ tile.Y <= p[2] /\ p[2] < tile.Y + tile.Height

(* The tiles of the pixel-level image whose region holds p. *)
TilesAt(p) == {k \in 1 .. Len(px.tiles) : InTile(px.tiles[k], p)}

(* C12. Tiling completeness: the unpadded regions of the tiles lie inside
   the image, are at least one pixel and at most T wide and high, never
   overlap, and once the split is done every pixel of [0,W) x [0,H) lies in
   exactly one of them. *)
C12_TilingPartition ==
    px.pc \in {"split", "run", "saved"} =>
        /\ \A k \in 1 .. Len(px.tiles) :
             LET t == px.tiles[k]
             IN  /\ t.X >= 0 /\ t.Width >= 1 /\ t.Width <= px.T
                 /\ t.X + t.Width <= px.W
                 /\ t.Y >= 0 /\ t.Height >= 1 /\ t.Height <= px.T
                 /\ t.Y + t.Height <= px.H
        /\ \A p \in (0 .. px.W - 1) \X (0 .. px.H - 1) :
             /\ Cardinality(TilesAt(p)) <= 1
             /\ px.pc # "split" => Cardinality(TilesAt(p)) = 1

(* An image whose sides are no multiples of the tile edge has been split
   into a grid of at least two by two tiles. *)
C12_Witness ==
    /\ px.pc = "run"
    /\ px.W % px.T # 0 /\ px.H % px.T # 0
    /\ px.W > px.T /\ px.H > px.T

(* ceil(n / T), from its definition. *)
Ceil(n, T) == CHOOSE c \in 0 .. n : c * T >= n /\ (c - 1) * T < n

(* C13. Tile count and identity: the tiles are numbered from 0 in row-major
   order, the split publishes ceil(W/T) * ceil(H/T) of them, which is the
   expected count kept with the image; every result has the TileID of its
   job, and the image is saved with that many tiles received.  600x400
   with T = 256 gives 6. *)
C13_TileCountIdentity ==
    px.pc \in {"split", "run", "saved"} =>
        LET n == Ceil(px.W, px.T) * Ceil(px.H, px.T)
        IN  /\ px.expected = n
            /\ Len(px.tiles) <= n
            /\ px.pc # "split" => Len(px.tiles) = n
            /\ \A k \in 1 .. Len(px.tiles) :
                 /\ px.tiles[k].TileID = k - 1
                 /\ px.tiles[k].X = ((k - 1) % Ceil(px.W, px.T)) * px.T
                 /\ px.tiles[k].Y = ((k - 1) \div Ceil(px.W, px.T)) * px.T
            /\ \A r \in 1 .. Len(px.results) : px.results[r].TileID = r - 1
            /\ px.file.exists =>
                 /\ Cardinality(px.merged) = n
                 /\ {px.results[r].TileID : r \in px.merged} = 0 .. (n - 1)
            /\ tilesAlong(600, TILE_SIZE) * tilesAlong(400, TILE_SIZE) = 6

(* An image of three by two tiles is saved with six tiles received. *)
C13_Witness ==
    /\ px.pc = "saved"
    /\ Ceil(px.W, px.T) = 3 /\ Ceil(px.H, px.T) = 2
    /\ Cardinality(px.merged) = 6

(* C14. Padding correctness: the Data of every tile has Height + 2*Padding
   rows of Width + 2*Padding pixels, and the pixel in row j, column i is
   the source pixel at (X + i - Padding, Y + j - Padding), each coordinate
   clamped to the image. *)
C14_PaddingClamp ==
    px.pc \in {"split", "run", "saved"} =>
        \A k \in 1 .. Len(px.tiles) :
            LET t == px.tiles[k]
            IN  /\ Len(t.Data) = t.Height + 2 * t.Padding
                /\ \A j \in 1 .. Len(t.Data) :
                     /\ Len(t.Data[j]) = t.Width + 2 * t.Padding
                     /\ \A i \in 1 .. Len(t.Data[j]) :
                          t.Data[j][i] =
                            Image(px.W, px.H)[<<clamp(t.X + i - 1 - t.Padding, px.W),
                                                clamp(t.Y + j - 1 - t.Padding, px.H)>>]

(* C15. Round-trip identity: with a kernel of size one (no padding) the
   saved file is the original image. *)
C15_RoundTripIdentity ==
    (px.pc = "saved" /\ px.kernelSize = 1) => px.file.img = Image(px.W, px.H)

(* An image cut into a grid of clipped tiles went through the kernel of
   size one and was saved. *)
C15_Witness ==
    /\ px.pc = "saved" /\ px.kernelSize = 1 /\ px.file.exists
    /\ px.W % px.T # 0 /\ px.H % px.T # 0
    /\ px.W > px.T /\ px.H > px.T

(* C16. Malformed messages: a malformed job that a worker has read, and a
   malformed result that the assembler has read, is acknowledged (not in
   the pending list); no result is computed from a malformed job and
   nothing is merged from a malformed result. *)
C16_MalformedAcked ==
    /\ \A id \in BadIn(jobs, BadJobs) : id <= jobLast => id \notin DOMAIN jobPEL
    /\ \A id \in BadIn(results, BadResults) :
         id <= resLast => id \notin DOMAIN resPEL
    /\ \A w \in Workers : wk[w].pc # "read" => wk[w].id \notin BadIn(jobs, BadJobs)
    /\ \A a \in Assemblers :
         asmb[a].pc # "read" => asmb[a].id \notin BadIn(results, BadResults)

(* The coordinator is past the tile: its AddJob has returned. *)
Passed(slot) ==
    \/ coord.pc = "done"
    \/ coord.img > slot[1]
    \/ coord.img = slot[1] /\ coord.pc = "add" /\ coord.tileID > slot[2]

(* The job stream holds a job for the tile. *)
HasJob(slot) ==
    \E k \in 1 .. Len(jobs) :
        /\ jobs[k].ImageTile.ImageID = slot[1]
        /\ jobs[k].ImageTile.TileID = slot[2]

(* C17. A tile publish failure is never silent: a tile of an image of the
   batch that the coordinator is past and that is not in the job stream
   has had its error logged by the coordinator. *)
C17_PublishFailureReported ==
    \A s \in Slots :
        (s[1] \in Batch /\ Passed(s) /\ ~HasJob(s)) => s \in hist.addErr

(* The jobs of the stream for a tile. *)
JobsOf(slot) ==
    {k \in 1 .. Len(jobs) :
        /\ jobs[k].ImageTile.ImageID = slot[1]
        /\ jobs[k].ImageTile.TileID = slot[2]}

(* C18. Decode-failure isolation: a file that fails to decode gets no
   ImageInfo and no job; when the coordinator is done every file that
   decodes has its ImageInfo stored and one job for each of its tiles. *)
C18_DecodeIsolation ==
    \A i \in Images :
        /\ (i < Len(coord.paths) /\ ~coord.paths[i + 1]) =>
             /\ info[i] = NoInfo
             /\ \A t \in TileIds(i) : JobsOf(<<i, t>>) = {}
        /\ (i \in Batch /\ coord.pc = "done") =>
             /\ info[i] = ImageInfoOf(i)
             /\ \A t \in TileIds(i) : Cardinality(JobsOf(<<i, t>>)) = 1

(* The first file failed to decode and the coordinator went on to publish
   the tiles of a later one. *)
C18_Witness ==
    /\ coord.pc = "done"
    /\ ~coord.paths[1]
    /\ \E i \in Batch : i > 0 /\ JobsOf(<<i, 0>>) # {}

(* C19. Complete is terminal: a result acknowledged after its image was
   saved is acknowledged as a duplicate, no image is saved twice, and the
   output file stays the file of the complete image. *)
C19_CompleteTerminal ==
    /\ \A e \in hist.acks : e.late => e.kind = "duplicate"
    /\ \A i \in Images :
         /\ hist.saves[i] <= 1
         /\ output[i].exists => output[i].img = FullImage(i)

(* A tile was delivered after its image had been saved and its assembly
   released: the assembler allocated a fresh buffer for it, discarded the
   tile, and the file was written once. *)
C19_Witness ==
    \E e \in hist.acks :
        LET i == results[e.id].ProcessedTile.ImageID
        IN  /\ e.late /\ e.kind = "duplicate"
            /\ asmb[e.by].assemblers[i].live
            /\ asmb[e.by].assemblers[i].img = NewRGBA(i)
            /\ hist.saves[i] = 1

(* C20. Completion transition: once the output file of an image is saved,
   the store eventually records the image as completed. *)
C20_CompletedRecorded ==
    \A i \in Images : output[i].exists ~> (status[i] = "completed")

(* The ids of the successful AckResult calls. *)
ResultAcks == {e.id : e \in hist.acks}

(* An entry of a stream is in exactly one of the three states of its
   consumer group: not yet delivered, pending for one consumer of the
   group, acknowledged; it was delivered by a read exactly when it is past
   the group's last-delivered id, and it left the pending list only by a
   successful XACK. *)
Conserved(name, stream, last, pel, owners, acks) ==
    /\ last <= Len(stream)
    /\ DOMAIN pel \subseteq 1 .. last
    /\ \A id \in 1 .. Len(stream) :
         /\ Cardinality({k \in {"new", "pending", "acked"} :
                \/ k = "new" /\ id > last
                \/ k = "pending" /\ id \in DOMAIN pel
                \/ k = "acked" /\ id \in acks}) = 1
         /\ id \in DOMAIN pel => pel[id].owner \in owners
         /\ (<<name, id>> \in hist.delivered) <=> (id <= last)

(* C21: every published job and result is, in its consumer group, in exactly
   one of: not yet delivered, pending for exactly one consumer,
   acknowledged; no read delivers a message a read had delivered before;
   and a message leaves the pending list only by an Ack. *)
C21_QueueConservation ==
    /\ Conserved("jobs", jobs, jobLast, jobPEL, Workers, hist.jobAcks)
    /\ Conserved("results", results, resLast, resPEL, {consumer}, ResultAcks)
    /\ hist.twice = {}

(* One job is acknowledged, another is pending for a worker that claimed
   it from its reader, and a result is pending. *)
C21_Witness ==
    /\ \E a, b \in 1 .. Len(jobs) :
         /\ a \in hist.jobAcks
         /\ b \in DOMAIN jobPEL /\ wk[jobPEL[b].owner].pc = "read"
    /\ DOMAIN resPEL # {}

(* C22: a ClaimStaleJobs call moves to its caller only jobs that are pending
   and have been idle for minIdle when it claims them, returns exactly those
   and at most count of them, and leaves the owner and idle time of every
   other pending job, the undelivered jobs and the acknowledged jobs as they
   were; a job delivered less than minIdle ago is not taken. *)
C22_ClaimOnlyStale ==
    [][\A w \in Workers :
         (call[w].pc = "claiming" /\ call'[w].pc = "idle") =>
            LET got == call'[w].got
            IN  /\ got \subseteq {m \in DOMAIN jobPEL : jobPEL[m].stale}
                /\ Cardinality(got) <= call[w].count
                /\ \A m \in got : jobPEL'[m].owner = w
                /\ DOMAIN jobPEL' = DOMAIN jobPEL
                /\ \A m \in (DOMAIN jobPEL) \ got : jobPEL'[m] = jobPEL[m]
                /\ jobs' = jobs /\ jobLast' = jobLast
                /\ hist'.jobAcks = hist.jobAcks]_vars

(* A call with count 1 took one stale job for its caller while another job
   stays pending for the other worker. *)
C22_Witness ==
    \E w \in Workers :
        /\ call[w].pc = "idle" /\ call[w].count = 1
        /\ Cardinality(call[w].got) = 1
        /\ \A m \in call[w].got : m \in DOMAIN jobPEL /\ jobPEL[m].owner = w
        /\ \E m \in DOMAIN jobPEL : jobPEL[m].owner # w

(* C23: once a worker of the pool has observed the cancellation it has
   returned and reads no further job; a blur, publish or ack in flight at
   Stop completes; after Stop every worker and the retry monitor exit and
   Start returns; and a job whose result a worker of the stopped pool
   published is not left pending. *)
C23_GracefulShutdown ==
    /\ [][\A w \in Workers :
            /\ pool.worker[w].pc = "exited" => pool'.worker[w].pc = "exited"
            /\ (pool.worker[w].pc = "select" /\ pool.cancelled
                   /\ pool'.worker[w] # pool.worker[w])
                  => pool'.worker[w].pc = "exited"
            /\ (pool.worker[w].pc \in {"publish", "ack"}
                   /\ pool'.worker[w] # pool.worker[w])
                  => pool'.worker[w].pc \in {"ack", "select"}]_vars
    /\ [](pool.returned =>
            /\ pool.monitor = "exited"
            /\ \A w \in Workers : pool.worker[w].pc = "exited"
            /\ pool.published \cap DOMAIN jobPEL = {})
    /\ (pool.cancelled ~> pool.returned)

(* Stop came while a worker was between ReadJob and AckJob and before every
   job was read; Start has returned, and that job has its result. *)
C23_Witness ==
    /\ pool.returned
    /\ pool.atStop # {}
    /\ pool.atStop \subseteq pool.published
    /\ jobLast < Len(jobs)

(* C24: in a run without a crash or a failed store or disk call there are
   never more results than jobs and no image is saved twice, and in the end
   the coordinator is done, every job has been read and acknowledged, there
   are as many results as jobs, and every file that decodes has its one
   complete output file, a file that does not decode none. *)
C24_FailureFreeRun ==
    /\ [](Len(results) <= Len(jobs) /\ \A i \in Images : hist.saves[i] <= 1)
    /\ <>[](/\ coord.pc = "done"
            /\ jobLast = Len(jobs) /\ DOMAIN jobPEL = {}
            /\ Len(results) = Len(jobs)
            /\ \A i \in Batch :
                 /\ Len(SelectSeq(results,
                        LAMBDA r : r.ProcessedTile.ImageID = i)) = expected(i)
                 /\ hist.saves[i] = 1
                 /\ output[i].exists /\ output[i].img = FullImage(i)
            /\ \A i \in Images \ Batch : ~output[i].exists)

(* The run of a directory whose first file does not decode and whose second
   does is over: the second image's file is there, the first's is not. *)
C24_Witness ==
    /\ coord.pc = "done" /\ Len(coord.paths) >= 2 /\ ~coord.paths[1]
    /\ Batch # {}
    /\ Len(jobs) > 0 /\ Len(results) = Len(jobs) /\ DOMAIN jobPEL = {}
    /\ \A i \in Batch : output[i].exists /\ hist.saves[i] = 1

(* C25: a run after the first, on the same store and with the same ImageIDs,
   is not affected by the run before it: when all its messages are handled
   none of its tiles was taken for a duplicate and every image has its
   complete output file. *)
C25_PerRunNamespacing ==
    (hist.run > 1 /\ Quiescent) =>
        /\ \A e \in hist.acks : e.kind # "duplicate"
        /\ \A i \in Batch : output[i].exists /\ output[i].img = FullImage(i)

(* A worker of the pool has the job again whose processTile failed. *)
Retried ==
    \E id \in pool.failed : \E w \in Workers :
        pool.worker[w].pc = "publish" /\ pool.worker[w].id = id

(* C26: a tile whose processing failed is processed again without anyone's
   doing, and at most three times. *)
C26_BoundedRetry == (pool.failed # {}) ~> Retried

(* Every job and every result of variant g's run has been handled and the
   processes wait for messages. *)
QuiescentG ==
    /\ coord.pc = "done"
    /\ jobLast = Len(jobs) /\ Len(results) = Len(jobs)
    /\ \A w \in Workers : pool.worker[w].pc \in {"select", "reading"}
    /\ resLast = Len(results) /\ gasm.pc = "read"

(* C27: after the assembler has crashed in the middle of an image the
   assembly resumes from the tiles recorded so far: when every result has
   been handled the image is saved with all its tiles. *)
C27_CheckpointRecovery ==
    (gasm.crashes > 0 /\ QuiescentG) =>
        \A i \in Batch : output[i].exists /\ output[i].img = FullImage(i)

(* The tile of slot is in variant e's job list, with a worker, in the
   result list or in an assembler's buffer. *)
E_Somewhere(slot) ==
    \/ \E k \in 1 .. Len(eq.jobs) :
          /\ eq.jobs[k].ImageTile.ImageID = slot[1]
          /\ eq.jobs[k].ImageTile.TileID = slot[2]
    \/ \E w \in Workers :
          /\ eq.worker[w].pc = "push"
          /\ eq.worker[w].job.ImageID = slot[1]
          /\ eq.worker[w].job.TileID = slot[2]
    \/ \E k \in 1 .. Len(eq.results) :
          /\ eq.results[k].ProcessedTile.ImageID = slot[1]
          /\ eq.results[k].ProcessedTile.TileID = slot[2]
    \/ /\ eq.assemblers[slot[1]].live
       /\ eq.assemblers[slot[1]].img[slot[2]] # <<"zero", 0, 0>>

(* C28: variant e's assembler has saved an image only when it has received
   ExpectedTiles results of it, and the file is then the complete image; a
   tile whose worker was killed after PopJob and before PushResult is in no
   list, with no worker and in no buffer ever after, and its image is never
   saved. *)
C28_NonDurableBaseline ==
    /\ \A i \in Images :
         output[i].exists =>
            /\ eq.received[i] >= expected(i)
            /\ output[i].img = FullImage(i)
    /\ \A slot \in eq.lost :
         /\ ~E_Somewhere(slot)
         /\ ~output[slot[1]].exists

(* A worker was killed with tile 1 of the image; every other job has been
   worked, every result assembled, and there is no output file. *)
C28_Witness ==
    /\ eq.lost # {}
    /\ coord.pc = "done" /\ eq.jobs = <<>> /\ eq.results = <<>>
    /\ \A w \in Workers : eq.worker[w].pc = "pop"
    /\ \E slot \in eq.lost :
         /\ eq.received[slot[1]] = expected(slot[1]) - 1
         /\ eq.received[slot[1]] > 0
         /\ ~output[slot[1]].exists

(* The buffer after the results 1 .. k of the sequence were applied to img
   in the order of the sequence. *)
RECURSIVE MergedInOrder(_, _, _)
MergedInOrder(img, res, k) ==
    IF k = 0 THEN img ELSE SetTile(MergedInOrder(img, res, k - 1), res[k])

C30_MetadataBeforeJobs ==
    \A k \in 1 .. Len(jobs) :
        JobDecodes(jobs[k]) =>
            info[jobs[k].ImageTile.ImageID] = ImageInfoOf(jobs[k].ImageTile.ImageID)

(* C31: every result a worker published has the ImageID, TileID, X, Y, Width
   and Height of the job it was computed from, and its Data has Height rows
   of Width pixels each, for clipped edge tiles as for full ones. *)
C31_ResultShape ==
    /\ Len(px.results) <= Len(px.tiles)
    /\ \A k \in 1 .. Len(px.results) :
         LET job == px.tiles[k]
             res == px.results[k]
         IN  /\ res.ImageID = job.ImageID /\ res.TileID = job.TileID
             /\ res.X = job.X /\ res.Y = job.Y
             /\ res.Width = job.Width /\ res.Height = job.Height
             /\ Len(res.Data) = res.Height
             /\ \A y \in 1 .. Len(res.Data) : Len(res.Data[y]) = res.Width

(* A worker published the result of a tile clipped at the right and bottom
   edge of the image whose job carried padding, besides that of a full
   tile. *)
C31_Witness ==
    /\ px.padding > 0
    /\ \E k \in 1 .. Len(px.results) :
         /\ px.results[k].Width < px.T /\ px.results[k].Height < px.T
         /\ px.results[k].X > 0 /\ px.results[k].Y > 0
    /\ \E k \in 1 .. Len(px.results) :
         px.results[k].Width = px.T /\ px.results[k].Height = px.T

(* The images Run_c loaded, and their tiles as (ImageID, TileID). *)
Loaded == {inproc.imageDataList[k] : k \in 1 .. Len(inproc.imageDataList)}
LoadedTiles == UNION {{<<i, t>> : t \in TileIds(i)} : i \in Loaded}

(* The tiles the coordinator had enqueued when it sent command k. *)
EnqueuedBefore(k) ==
    {<<inproc.sent[j].ImageID, inproc.sent[j].TileID>> :
        j \in {n \in 1 .. (k - 1) : inproc.sent[n].Type = "process"}}

(* What holds of Run_c in every state. *)
C32_Safe ==
    inproc.variant = "c" =>
        /\ inproc.panic = "none"
        /\ \A k \in 1 .. Len(inproc.sent) :
             inproc.sent[k].Type = "done" => EnqueuedBefore(k) = LoadedTiles
        /\ \A w \in DOMAIN inproc.worker :
             /\ inproc.worker[w].dones <= 1
             /\ inproc.worker[w].pc = "exited" <=> inproc.worker[w].dones = 1
        /\ \A slot \in LoadedTiles : inproc.blurred[slot] <= 1
        /\ \A i \in Images :
             /\ \A k \in 1 .. Len(inproc.asmChan[i].buf) :
                  inproc.asmChan[i].buf[k].ImageID = i
             /\ inproc.asm[i].merged \subseteq {<<i, t>> : t \in TileIds(i)}
             /\ inproc.saved[i].exists =>
                  /\ i \in Loaded
                  /\ inproc.asm[i].merged = {<<i, t>> : t \in TileIds(i)}
                  /\ inproc.saved[i].tiles = inproc.asm[i].merged
        /\ inproc.main = "returned" =>
             /\ \A w \in GoWorkers : inproc.worker[w].pc = "exited"
             /\ \A slot \in LoadedTiles : inproc.blurred[slot] = 1
             /\ \A i \in Images : inproc.saved[i].exists <=> i \in Loaded
             /\ inproc.tileQueue.buf = <<>> /\ inproc.resultQueue.buf = <<>>

(* C32: in Run_c the coordinator enqueues every tile before the 'done'
   commands, each worker takes one 'done' and exits, every tile is blurred
   by one worker and reaches the assembler of its image, an assembler saves
   only after all tiles of its image were merged, and the run does not
   deadlock: it returns. *)
C32_Pipeline == []C32_Safe /\ <>(inproc.variant = "c" /\ inproc.main = "returned")

(* Run_c returned after two images were loaded in the reverse order of
   their paths and both were saved, every tile blurred once and every
   worker gone with its 'done'. *)
C32_Witness ==
    /\ inproc.variant = "c" /\ inproc.main = "returned"
    /\ Len(inproc.imageDataList) >= 2
    /\ inproc.imageDataList[1] > inproc.imageDataList[2]
    /\ \A slot \in LoadedTiles : inproc.blurred[slot] = 1
    /\ \A w \in GoWorkers : inproc.worker[w].dones = 1
    /\ \A i \in Loaded : inproc.saved[i].exists

(* What holds of RunParallelSingle in every state. *)
C33_Safe ==
    inproc.variant = "b" =>
        LET i == TheImage
            all == Ceil(Bounds(i).Width, TILE_SIZE) * Ceil(Bounds(i).Height, TILE_SIZE)
        IN  /\ inproc.panic = "none"
            /\ \A t \in TileIds(i) : inproc.blurred[<<i, t>>] <= 1
            /\ inproc.saved[i].exists =>
                 /\ inproc.asm[i].tilesReceived = all
                 /\ Cardinality(inproc.saved[i].tiles) = all
                 /\ inproc.saved[i].tiles = TileIds(i)
            /\ inproc.main = "returned" =>
                 /\ inproc.saved[i].exists
                 /\ \A t \in TileIds(i) : inproc.blurred[<<i, t>>] = 1
                 /\ \A w \in GoWorkers : inproc.worker[w].pc = "exited"
                 /\ inproc.co.dones = NUM_WORKERS

(* C33: in RunParallelSingle the workers together process each tile of the
   image exactly once, the assembler writes the output only after it merged
   exactly ceil(W/256) * ceil(H/256) distinct tiles, and the run ends with
   every worker goroutine gone, none blocked on the tile or result queue. *)
C33_TileParallel == []C33_Safe /\ <>(inproc.variant = "b" /\ inproc.main = "returned")

(* RunParallelSingle returned for an image of more tiles than the result
   queue holds, the output written from all of them. *)
C33_Witness ==
    /\ inproc.variant = "b" /\ inproc.main = "returned"
    /\ expected(TheImage) > 1
    /\ inproc.saved[TheImage].tiles = TileIds(TheImage)
    /\ \A w \in GoWorkers : inproc.worker[w].pc = "exited"

(* The tile a worker whose blur is the identity would publish: the padding
   stripped from the job's own data. *)
StripOnly(tile) ==
    [ImageID |-> tile.ImageID, TileID |-> tile.TileID, X |-> tile.X,
     Y |-> tile.Y, Width |-> tile.Width, Height |-> tile.Height,
     Data |-> ExtractCenter(tile.Data, tile.Padding, tile.Width, tile.Height)]

(* C34: pixel (x, y) of a processed tile is the blurred value at the place
   of the job's data that holds source pixel (X + x, Y + y), also for a
   tile on the top or left border whose padded data was cut at the image
   bounds; and with the identity for the blur, stripping the padding of
   every tile and merging the tiles gives the original image. *)
C34_TileAlignment ==
    /\ \A k \in 1 .. Len(px.results) :
         LET tile == px.tiles[k]
             blurred == ApplyBlurToTile(tile.Data,
                                        GenerateGaussianKernel(px.kernelSize))
             sx == max(tile.X - tile.Padding, 0)
             sy == max(tile.Y - tile.Padding, 0)
         IN  \A y \in 1 .. tile.Height : \A x \in 1 .. tile.Width :
                 px.results[k].Data[y][x] =
                     blurred[tile.Y - sy + y][tile.X - sx + x]
    /\ px.pc = "run" =>
         MergedInOrder(ZeroImage(px.W, px.H),
                       [k \in 1 .. Len(px.tiles) |-> StripOnly(px.tiles[k])],
                       Len(px.tiles)) = Image(px.W, px.H)

(* C35: with two assemblers reading the result stream the output file of
   an image is written at most once: no two assemblers both find the count
   of the received set at ExpectedTiles and both save. *)
C35_SingleSave == \A i \in Images : hist.saves[i] <= 1

(* C36: the 'workers' group on the job stream and the 'assemblers' group
   on the result stream exist before a message is appended to the stream:
   every message of a stream lies after the start position of the stream's
   group, so that the group can deliver it. *)
C36_GroupsBeforeMessages ==
    \A s \in Streams : \A k \in 1 .. Len(grp.stream[s]) :
        grp.group[s].exists /\ k > grp.group[s].start

(* The points of the buffer inside the rectangle of a tile. *)
Inside(tile, p) ==
    /\ p[1] >= tile.X /\ p[1] < tile.X + tile.Width
    /\ p[2] >= tile.Y /\ p[2] < tile.Y + tile.Height

(* The merge of result r leaves every pixel outside the tile's rectangle
   as it was. *)
MergeFramePixels ==
    px.pc # "off" =>
        \A r \in 1 .. Len(px.results) :
            (r \notin px.merged /\ r \in px.merged') =>
                \A p \in DOMAIN px.out :
                    ~Inside(px.results[r], p) => px.out'[p] = px.out[p]

(* The merge of a tile by assembler a leaves the other tile regions of the
   image, the buffers of the other images and every received set as they
   were; marking a tile received changes the set of its image only. *)
MergeFrameImages ==
    \A a \in Assemblers :
        LET tile == asmb[a].tile
            i == tile.ImageID
        IN  /\ (asmb[a].pc = "persist" /\ asmb'[a].pc = "ack") =>
                 /\ \A j \in Images \ {i} :
                      asmb'[a].assemblers[j] = asmb[a].assemblers[j]
                 /\ \A t \in TileIds(i) \ {tile.TileID} :
                      asmb'[a].assemblers[i].img[t] = asmb[a].assemblers[i].img[t]
                 /\ received' = received
                 /\ output' = output
            /\ (asmb[a].pc = "mark" /\ asmb'[a] # asmb[a]) =>
                 \A j \in Images \ {i} : received'[j] = received[j]

(* C37: merging a processed tile changes only the pixels of the buffer of
   the tile's image inside [X, X+Width) x [Y, Y+Height); the pixels outside
   the rectangle, and the buffers and the received sets of the other
   images, stay as they were. *)
C37_MergeFrame == [][MergeFramePixels /\ MergeFrameImages]_vars

(* A clipped tile away from the origin was merged into a buffer that held
   the pixels of another tile, blurred with padding. *)
C37_Witness ==
    /\ px.pc \in {"run", "saved"} /\ px.padding > 0
    /\ Cardinality(px.merged) >= 2
    /\ \E r \in px.merged :
         /\ r # px.first
         /\ px.results[r].X > 0 /\ px.results[r].Width < px.T

(* C38: in the in-process variants no goroutine sends on a closed channel
   or closes a channel twice: the tile queue is closed only after the
   coordinator sent its last tile, the result queue only after every
   worker returned, the image channel only after every reader is done and
   an assembler channel only after the manager routed the last result. *)
C38_NoSendOnClosed ==
    /\ inproc.panic = "none"
    /\ inproc.tileQueue.closed =>
         /\ inproc.co.pc = "exit"
         /\ \A t \in TileIds(TheImage) :
              \E k \in 1 .. Len(inproc.sent) :
                  inproc.sent[k] = ProcessCmd(TheImage, t)
    /\ inproc.resultQueue.closed =>
         \A w \in GoWorkers : inproc.worker[w].pc = "exited"
    /\ inproc.imageDataChannel.closed =>
         \A i \in Images : inproc.reader[i] = "done"
    /\ \A i \in Images :
         inproc.asmChan[i].closed =>
             /\ inproc.mgr.pc \in {"wait", "exited"}
             /\ inproc.resultQueue.closed /\ inproc.resultQueue.buf = <<>>

(* processImageWithTiles returned for an image of several tiles, with the
   tile queue and the result queue closed. *)
C38_Witness ==
    /\ inproc.variant = "a" /\ inproc.main = "returned"
    /\ expected(TheImage) > 1
    /\ inproc.tileQueue.closed /\ inproc.resultQueue.closed
    /\ inproc.saved[TheImage].tiles = TileIds(TheImage)

====
